---- MODULE Spec2Model ----
(***************************************************************************)
(* Model of bevy_mujoco: reconstruction of the body forest from the flat   *)
(* parent-indexed body table (collect_children / body_tree), the pre-order *)
(* walk of a tree by pop_back (tests::bodies_tree), the selection of the   *)
(* renderable geom (Body::render_geom), mesh generation (Geom::mesh) and   *)
(* the spawning of scene nodes (setup_mujoco).                             *)
(***************************************************************************)
EXTENDS Integers, Sequences, FiniteSets, TLC

\* ------------------------------------------------------------------ bounds
\* largest number of bodies of an enumerated body table
MaxBodies == 4
\* largest number of geoms of an enumerated geom table
MaxGeoms == 2
\* depth at which the recursion of collect_children exhausts the call stack
MaxDepth == 16

\* ------------------------------------------------------------- body tables
VARIABLES
    bodies,     \* the flat body table: Seq of [id, parent_id]
    pc,         \* position of the running operation
    rootIter,   \* body_tree: the remaining root_bodies (table positions)
    nodes,      \* arena of Tree<Body> nodes: Seq of [body, children]
    stack,      \* call stack of collect_children: Seq of [node, children]
    trees,      \* body_tree: the forest built so far (root node indices)
    wtree,      \* tests::bodies_tree: index of the tree being printed
    wstack,     \* call stack of print_body_tree_level: [node, rest, level]
    out         \* lines printed so far: Seq of [body, level]

treeVars == <<bodies, pc, rootIter, nodes, stack, trees, wtree, wstack, out>>

\* ------------------------------------------------------------- geom tables
VARIABLES
    geoms,      \* the flat geom table: Seq of [id, body_id, geom_type, geom_group]
    gpc,        \* the last geometry operation that returned
    rendered,   \* Body::render_geom: [body, geom], geom = 0 for None
    meshOut     \* Geom::mesh: [geom, result]

geomVars == <<geoms, gpc, rendered, meshOut>>

\* ------------------------------------------------------------ scene set-up
VARIABLES
    sIter,      \* setup_mujoco: the trees of body_tree() still to spawn
    sstack,     \* call stack of the closure f: Seq of [node, rest, entity]
    entities,   \* the spawned entities: Seq of [parent, tag]
    spawning,   \* spawn_body: table position of the body being spawned
    failure     \* the panic that ended setup_mujoco, "none" while running

setupVars == <<sIter, sstack, entities, spawning, failure>>

\* ------------------------------------------------------- frame conversion
VARIABLES
    sim,        \* the simulation-frame values of one body or geom:
                \* [kind, pos (x,y,z), quat (w,x,y,z), size]
    conv        \* the render-frame values last computed from sim:
                \* [op, uncorrected, correction, translation, rotation (x,y,z,w)]

convVars == <<sim, conv>>

\* ----------------------------------------------------------- relative pose
VARIABLES
    absPose,    \* the absolute poses [child, parent], each [pos, quat]
    rel         \* relative_pose: [done, translation, rotation]

relVars == <<absPose, rel>>

\* ------------------------------------------------------------------- tick
VARIABLES
    paused,     \* the pause setting
    budget,     \* 1 / target_frame_rate, in units of simulation time
    timestep,   \* the simulation time one sub-step advances the clock by
    time,       \* the simulation's clock
    simStart,   \* the clock at the start of the running tick
    tpc,        \* the tick: "idle", "stepping", "synced" or "skipped"
    nstep,      \* the number of sub-steps made so far
    xabs,       \* the absolute poses of the simulation: [root, child]
    transforms, \* the scene nodes' transforms: [root, child]
    control,    \* the control value supplied by the controller
    simCtrl     \* the control value written into the simulation

tickVars == <<paused, budget, timestep, time, simStart, tpc, nstep, xabs,
              transforms, control, simCtrl>>

\* ------------------------------------------------------------- scheduling
VARIABLES
    stage,      \* the schedule being run: "startup" or "update"
    nframes,    \* the number of update frames completed
    running,    \* the systems that have started and not finished
    finished,   \* the systems that have finished in this run of the stage
    doing,      \* per system, its call into the MuJoCo resource in progress:
                \* "idle", "step" or "read"
    hasObserver \* the application has a system of its own that reads MuJoCo

guardVars == <<stage, nframes, running, finished, doing, hasObserver>>

\* ----------------------------------------------------------------- meshes
VARIABLES
    store,      \* the mesh arrays of the model: [vertnum, facenum, vert,
                \* normal, face]
    mpc,        \* meshes(): "idle", "loop" or "done"
    mi,         \* meshes(): the loop index i
    meshesOut   \* meshes(): the Vec<MuJoCoMesh> built so far

meshVars == <<store, mpc, mi, meshesOut>>

\* ------------------------------------------------------- state accessors
VARIABLES
    dims,       \* the sizes of the model: [nbody, ngeom]
    xraw,       \* the arrays of mjData: [xpos (3 a body), xquat (4 a body)]
    xout        \* the last accessor that returned: [op, entries, crashed]

stateVars == <<dims, xraw, xout>>

\* --------------------------------------------------- primitive shapes
VARIABLES
    gsim,       \* the simulation-frame values of one geom: [kind, size]
    gbuilt      \* the primitive last built from gsim: [op, shape, extent,
                \* radius, length, correction, adapters_correction]

shapeVars == <<gsim, gbuilt>>

\* ----------------------------------------------------------- spawned body
VARIABLES
    spawnIn,    \* the body handed to spawn_body and its first geom:
                \* [parent_id, body_quat, geom_quat], quaternions (w, x, y, z)
    spawnOut    \* the rotation of the spawned entity: [op, rotation]

spawnVars == <<spawnIn, spawnOut>>

\* ---------------------------------------------------------- cylinder mesh
VARIABLES
    cyl,        \* the Cylinder converted: [resolution, subdivisions, sized],
                \* sized for radius > 0.0 && height > 0.0
    cpc,        \* Mesh::from(Cylinder): [at, i, j], the loop being run and
                \* its counters
    clocals,    \* its locals: [count, top_offset, bottom_offset, index_count]
    positions,  \* positions.len()
    indices,    \* the index buffer built so far
    cfailure    \* the panic that ended the conversion, "none" otherwise

cylVars == <<cyl, cpc, clocals, positions, indices, cfailure>>

\* the variables of mesh generation and of spawning
lateVars == <<shapeVars, spawnVars, cylVars>>

\* the variables of scene construction
builtVars == <<treeVars, geomVars, setupVars>>

\* the variables of pose synchronisation and of the state accessors
syncVars == <<convVars, relVars, tickVars, guardVars, meshVars, stateVars,
              lateVars>>

\* what a conversion leaves alone
convOthers == <<builtVars, relVars, tickVars, guardVars, meshVars, stateVars,
               lateVars>>

\* what relative_pose leaves alone
relOthers == <<builtVars, convVars, tickVars, guardVars, meshVars, stateVars,
               lateVars>>

\* what a tick leaves alone
tickOthers == <<builtVars, convVars, relVars, guardVars, meshVars, stateVars,
               lateVars>>

\* what the scheduler leaves alone
guardOthers == <<builtVars, convVars, relVars, tickVars, meshVars, stateVars,
               lateVars>>

\* what xpos() and xquat() leave alone
stateOthers == <<builtVars, convVars, relVars, tickVars, guardVars, meshVars,
               lateVars>>

\* what meshes() leaves alone
meshOthers == <<builtVars, convVars, relVars, tickVars, guardVars, stateVars,
               lateVars>>

\* the variables of the earlier operations
earlyVars == <<builtVars, convVars, relVars, tickVars, guardVars, meshVars,
               stateVars>>

\* what the building of a primitive leaves alone
shapeOthers == <<earlyVars, spawnVars, cylVars>>

\* what spawn_body's transform leaves alone
spawnOthers == <<earlyVars, shapeVars, cylVars>>

\* what the conversion of a Cylinder leaves alone
cylOthers == <<earlyVars, shapeVars, spawnVars>>

\* the world sentinel id compared against in body_tree and collect_children
WorldId == 0

\* Body { id, parent_id }: bodies() numbers the bodies by table position
Body(i, p) == [id |-> i, parent_id |-> p]

\* the unitree_a1 table asserted by tests::bodies (names in table order)
RefNames ==
    <<"world", "trunk", "FR_hip", "FR_thigh", "FR_calf", "FL_hip", "FL_thigh",
      "FL_calf", "RR_hip", "RR_thigh", "RR_calf", "RL_hip", "RL_thigh", "RL_calf">>

\* parent ids of the unitree_a1 table: hips under trunk, thigh under hip,
\* calf under thigh
RefParents == <<0, 0, 1, 2, 3, 1, 5, 6, 1, 8, 9, 1, 11, 12>>

RefBodies == [i \in 1..14 |-> Body(i - 1, RefParents[i])]

\* parent ids of the enumerated tables; MaxBodies itself names no body
ParentIds == 0..MaxBodies

\* the enumerated body tables: id = table position - 1, any parent id
BodyTables ==
    UNION { { [i \in 1..n |-> Body(i - 1, par[i])] : par \in [1..n -> ParentIds] }
            : n \in 0..MaxBodies }

\* --------------------------------------------------------------- helpers
\* the positions of set S within 1..n, in ascending order: the order in
\* which iter().filter() yields the table entries that pass the filter
InOrder(S, n) ==
    LET F[k \in 0..n] ==
            IF k = 0 THEN <<>>
            ELSE IF k \in S THEN Append(F[k - 1], k) ELSE F[k - 1]
    IN  F[n]

\* mutant: the world guard is forgotten, the world collects the roots
ChildFilterNoWorldGuard(child, parent_id) ==
    /\ child.parent_id = parent_id
    /\ child.id # child.parent_id

\* mutant: both guards are forgotten, the world entry is its own child
ChildFilterNoGuards(child, parent_id) ==
    child.parent_id = parent_id

\* the filter closure of collect_children
ChildFilter(child, parent_id) ==
    /\ child.parent_id = parent_id
    /\ child.id # child.parent_id
    /\ child.parent_id # WorldId

\* mutant: a body whose parent_id names no body is taken for a root
RootFilterOrphans(body) ==
    \/ body.parent_id = WorldId
    \/ \A b \in 1..Len(bodies) : bodies[b].id # body.parent_id

\* mutant: the self-parent guard of collect_children is applied to roots too
RootFilterNotSelf(body) ==
    body.parent_id = WorldId /\ body.id # body.parent_id

\* the filter closure of body_tree
RootFilter(body) == body.parent_id = WorldId

\* Tree::new(body): a node without children
NewNode(b) == [body |-> b, children |-> <<>>]

\* the children vector computed at the head of collect_children
ChildrenOf(parent_id) ==
    InOrder({c \in 1..Len(bodies) : ChildFilter(bodies[c], parent_id)}, Len(bodies))

\* mutant: push_front instead of push_back
PushFront(children, leaf) == <<leaf>> \o children

\* mutant: the leaf replaces the children collected so far
PushOnly(children, leaf) == <<leaf>>

\* parent_leaf.push_back(leaf)
PushBack(children, leaf) == Append(children, leaf)

\* tree.pop_back(): the leaf removed and the children left
PopBackLeaf(children) == children[Len(children)]
PopBackRest(children) == SubSeq(children, 1, Len(children) - 1)

\* ------------------------------------------------------------------ init
\* the state before body_tree is called on table tbl
TreeIdle(tbl) ==
    /\ bodies = tbl
    /\ pc = "start"
    /\ rootIter = <<>>
    /\ nodes = <<>>
    /\ stack = <<>>
    /\ trees = <<>>
    /\ wtree = 0
    /\ wstack = <<>>
    /\ out = <<>>

\* a model without geoms, no geometry operation has run
GeomIdle ==
    /\ geoms = <<>>
    /\ gpc = "idle"
    /\ rendered = [body |-> 0, geom |-> 0]
    /\ meshOut = [geom |-> 0, result |-> "none"]

\* setup_mujoco has spawned nothing
SetupIdle ==
    /\ sIter = <<>>
    /\ sstack = <<>>
    /\ entities = <<>>
    /\ spawning = 0
    /\ failure = "none"

\* the values of a subject at the origin with no extent
ZeroSubject ==
    [kind |-> "NONE", pos |-> <<0, 0, 0>>, quat |-> <<0, 0, 0, 0>>,
     size |-> <<0, 0, 0>>]

\* no conversion has run
ConvIdle ==
    /\ sim = ZeroSubject
    /\ conv = [op |-> "none", uncorrected |-> <<0, 0, 0>>,
               correction |-> <<0, 0, 0>>, translation |-> <<0, 0, 0>>,
               rotation |-> <<0, 0, 0, 0>>]

\* a quaternion n / sqrt(2)^k stored (x, y, z, w): the identity rotation
QIdentity == [v |-> <<0, 0, 0, 1>>, k |-> 0]

\* a pose at the origin of the frame, not rotated
OriginPose == [pos |-> <<0, 0, 0>>, quat |-> QIdentity]

\* relative_pose has not run
RelIdle ==
    /\ absPose = [child |-> OriginPose, parent |-> OriginPose]
    /\ rel = [done |-> FALSE, translation |-> <<0, 0, 0>>, rotation |-> QIdentity]

\* no frame has been rendered: the clock at 0, every pose at the origin
TickIdle ==
    /\ paused = FALSE
    /\ budget = 1
    /\ timestep = 1
    /\ time = 0
    /\ simStart = 0
    /\ tpc = "idle"
    /\ nstep = 0
    /\ xabs = [root |-> OriginPose, child |-> OriginPose]
    /\ transforms = [root |-> [translation |-> <<0, 0, 0>>, rotation |-> QIdentity],
                     child |-> [translation |-> <<0, 0, 0>>, rotation |-> QIdentity]]
    /\ control = 0
    /\ simCtrl = 0

\* the systems of an application that uses the plugin: the plugin's two,
\* the controller of examples/unitree_a1_walk.rs and a reader of its own
Systems == {"setup_mujoco", "simulate_physics", "robot_control_loop", "observer"}

\* the application has not started
GuardIdle ==
    /\ stage = "startup"
    /\ nframes = 0
    /\ running = {}
    /\ finished = {}
    /\ doing = [s \in Systems |-> "idle"]
    /\ hasObserver = FALSE

\* a model without meshes, meshes() has not been called
MeshIdle ==
    /\ store = [vertnum |-> <<>>, facenum |-> <<>>, vert |-> <<>>,
                normal |-> <<>>, face |-> <<>>]
    /\ mpc = "idle"
    /\ mi = 0
    /\ meshesOut = <<>>

\* a model of the world body alone, no accessor has been called
StateIdle ==
    /\ dims = [nbody |-> 1, ngeom |-> 0]
    /\ xraw = [xpos |-> <<0, 0, 0>>, xquat |-> <<1, 0, 0, 0>>]
    /\ xout = [op |-> "none", entries |-> <<>>, crashed |-> FALSE]

\* no primitive has been built
ShapeIdle ==
    /\ gsim = [kind |-> "NONE", size |-> <<0, 0, 0>>]
    /\ gbuilt = [op |-> "none", shape |-> "none", extent |-> <<0, 0, 0>>,
                 radius |-> 0, length |-> 0, correction |-> <<0, 0, 0>>,
                 adapters_correction |-> <<0, 0, 0>>]

\* no body has been spawned
SpawnIdle ==
    /\ spawnIn = [parent_id |-> 0, body_quat |-> [v |-> <<1, 0, 0, 0>>, k |-> 0],
                  geom_quat |-> [v |-> <<1, 0, 0, 0>>, k |-> 0]]
    /\ spawnOut = [op |-> "none", rotation |-> QIdentity]

\* no Cylinder has been converted
CylIdle ==
    /\ cyl = [resolution |-> 1, subdivisions |-> 1, sized |-> TRUE]
    /\ cpc = [at |-> "start", i |-> 0, j |-> 0]
    /\ clocals = [count |-> 0, top_offset |-> 0, bottom_offset |-> 0,
                  index_count |-> 0]
    /\ positions = 0
    /\ indices = <<>>
    /\ cfailure = "none"

\* no mesh has been generated and no body spawned
LateIdle ==
    /\ ShapeIdle
    /\ SpawnIdle
    /\ CylIdle

\* no pose operation has run
SyncIdle ==
    /\ ConvIdle
    /\ RelIdle
    /\ TickIdle
    /\ GuardIdle
    /\ MeshIdle
    /\ StateIdle
    /\ LateIdle

InitTree ==
    /\ \E tbl \in BodyTables \cup {RefBodies} : TreeIdle(tbl)
    /\ GeomIdle
    /\ SetupIdle
    /\ SyncIdle

\* --------------------------------------------------------------- body_tree
\* body_tree: trees = vec![]; root_bodies = bodies.iter().filter(..)
BodyTreeStart ==
    /\ pc = "start"
    /\ rootIter' = InOrder({b \in 1..Len(bodies) : RootFilter(bodies[b])}, Len(bodies))
    /\ trees' = <<>>
    /\ pc' = "roots"
    /\ UNCHANGED <<bodies, nodes, stack, wtree, wstack, out>>
    /\ UNCHANGED <<geomVars, setupVars>>
    /\ UNCHANGED syncVars

\* body_tree: for body in root_bodies { root_leaf = Tree::new(body);
\* collect_children(&mut root_leaf, bodies) ... (entry of the call)
NextRoot ==
    /\ pc = "roots"
    /\ stack = <<>>
    /\ rootIter # <<>>
    /\ LET b == Head(rootIter)
       IN  /\ nodes' = Append(nodes, NewNode(b))
           /\ stack' = <<[node |-> Len(nodes) + 1,
                          children |-> ChildrenOf(bodies[b].id)]>>
    /\ rootIter' = Tail(rootIter)
    /\ UNCHANGED <<bodies, pc, trees, wtree, wstack, out>>
    /\ UNCHANGED <<geomVars, setupVars>>
    /\ UNCHANGED syncVars

\* collect_children: for child in children { leaf = Tree::new(child);
\* collect_children(&mut leaf, bodies) ... (entry of the recursive call);
\* a call deeper than the stack allows aborts the process
CollectChild ==
    /\ pc = "roots"
    /\ stack # <<>>
    /\ LET top == stack[Len(stack)]
       IN  /\ top.children # <<>>
           /\ IF Len(stack) >= MaxDepth
              THEN /\ pc' = "overflow"
                   /\ UNCHANGED <<nodes, stack>>
              ELSE LET c == Head(top.children)
                   IN  /\ nodes' = Append(nodes, NewNode(c))
                       /\ stack' =
                            Append([stack EXCEPT ![Len(stack)].children = Tail(top.children)],
                                   [node |-> Len(nodes) + 1,
                                    children |-> ChildrenOf(bodies[c].id)])
                       /\ pc' = pc
    /\ UNCHANGED <<bodies, rootIter, trees, wtree, wstack, out>>
    /\ UNCHANGED <<geomVars, setupVars>>
    /\ UNCHANGED syncVars

\* collect_children returns: the caller runs parent_leaf.push_back(leaf),
\* or, for a root, body_tree runs trees.push(root_leaf)
ReturnChild ==
    /\ pc = "roots"
    /\ stack # <<>>
    /\ LET top == stack[Len(stack)]
           rest == SubSeq(stack, 1, Len(stack) - 1)
       IN  /\ top.children = <<>>
           /\ stack' = rest
           /\ IF rest # <<>>
              THEN /\ nodes' = [nodes EXCEPT ![rest[Len(rest)].node].children =
                                    PushBack(@, top.node)]
                   /\ trees' = trees
              ELSE /\ trees' = Append(trees, top.node)
                   /\ nodes' = nodes
    /\ UNCHANGED <<bodies, pc, rootIter, wtree, wstack, out>>
    /\ UNCHANGED <<geomVars, setupVars>>
    /\ UNCHANGED syncVars

\* body_tree: the loop over root_bodies ends, trees is returned
BodyTreeDone ==
    /\ pc = "roots"
    /\ stack = <<>>
    /\ rootIter = <<>>
    /\ pc' = "done"
    /\ UNCHANGED <<bodies, rootIter, nodes, stack, trees, wtree, wstack, out>>
    /\ UNCHANGED <<geomVars, setupVars>>
    /\ UNCHANGED syncVars

\* ------------------------------------------------------ tests::bodies_tree
\* print_body_tree_level(bodies_tree[k].clone(), 0): the first line
WalkStart ==
    /\ pc = "done"
    /\ \E k \in 1..Len(trees) :
          /\ wtree' = k
          /\ wstack' = <<[node |-> trees[k], rest |-> nodes[trees[k]].children,
                          level |-> 0]>>
          /\ out' = <<[body |-> nodes[trees[k]].body, level |-> 0]>>
    /\ pc' = "walk"
    /\ UNCHANGED <<bodies, rootIter, nodes, stack, trees>>
    /\ UNCHANGED <<geomVars, setupVars>>
    /\ UNCHANGED syncVars

\* print_body_tree_level: leaf = tree.pop_back(); recurse with level + 1
WalkPop ==
    /\ pc = "walk"
    /\ wstack # <<>>
    /\ LET top == wstack[Len(wstack)]
       IN  /\ top.rest # <<>>
           /\ LET leaf == PopBackLeaf(top.rest)
              IN  /\ wstack' =
                        Append([wstack EXCEPT ![Len(wstack)].rest = PopBackRest(top.rest)],
                               [node |-> leaf, rest |-> nodes[leaf].children,
                                level |-> top.level + 1])
                  /\ out' = Append(out, [body |-> nodes[leaf].body,
                                         level |-> top.level + 1])
    /\ UNCHANGED <<bodies, pc, rootIter, nodes, stack, trees, wtree>>
    /\ UNCHANGED <<geomVars, setupVars>>
    /\ UNCHANGED syncVars

\* print_body_tree_level: pop_back() is None, the call returns
WalkReturn ==
    /\ pc = "walk"
    /\ wstack # <<>>
    /\ wstack[Len(wstack)].rest = <<>>
    /\ wstack' = SubSeq(wstack, 1, Len(wstack) - 1)
    /\ pc' = IF Len(wstack) = 1 THEN "walked" ELSE "walk"
    /\ UNCHANGED <<bodies, rootIter, nodes, stack, trees, wtree, out>>
    /\ UNCHANGED <<geomVars, setupVars>>
    /\ UNCHANGED syncVars

vars == <<treeVars, geomVars, setupVars, syncVars>>

Next ==
    \/ BodyTreeStart
    \/ NextRoot
    \/ CollectChild
    \/ ReturnChild
    \/ BodyTreeDone
    \/ WalkStart
    \/ WalkPop
    \/ WalkReturn

Init == InitTree

Spec == Init /\ [][Next]_vars

\* the recursion is scheduled by the call stack: every enabled step runs
FairSpec == Spec /\ WF_vars(Next)

\* ============================================== geoms: wrappers.rs model
\* enum GeomType
GeomTypes ==
    {"PLANE", "HFIELD", "SPHERE", "CAPSULE", "ELLIPSOID", "CYLINDER", "BOX",
     "MESH", "NONE"}

\* the kinds a compiled model stores in geom_type (GeomType::from 0..7)
ModelGeomTypes == GeomTypes \ {"NONE"}

\* render_geom keeps the geoms with geom_group < 3
GroupThreshold == 3

\* the groups of the enumerated tables: two below the threshold, one at it
Groups == (GroupThreshold - 2)..GroupThreshold

\* Geom { id, body_id, geom_type, geom_group }
Geom(i, b, t, g) == [id |-> i, body_id |-> b, geom_type |-> t, geom_group |-> g]

\* the owners (positions in body table tbl) of a table of n geoms: the geoms
\* of one body are adjacent, in body order, as the model stores them
GeomOwners(tbl, n) ==
    { f \in [1..n -> 1..Len(tbl)] : \A i \in 1..n - 1 : f[i] <= f[i + 1] }

\* the geom table with owners b, kinds t and groups g: id = position - 1
GeomTable(tbl, b, t, g) ==
    [i \in 1..Len(b) |-> Geom(i - 1, tbl[b[i]].id, t[i], g[i])]

\* geoms is one of the geom tables over body table tbl
GeomTableInit(tbl, types, groups) ==
    \E n \in 0..MaxGeoms :
        \E b \in GeomOwners(tbl, n), t \in [1..n -> types], g \in [1..n -> groups] :
            /\ geoms = GeomTable(tbl, b, t, g)
            /\ gpc = "idle"
            /\ rendered = [body |-> 0, geom |-> 0]
            /\ meshOut = [geom |-> 0, result |-> "none"]

\* geoms is a geom table over body table tbl in which every body owns one
\* geom: the tables on which set-up finds a geom for every body
GeomPerBodyInit(tbl, types) ==
    \E t \in [1..Len(tbl) -> types] :
        /\ geoms = GeomTable(tbl, [i \in 1..Len(tbl) |-> i], t,
                             [i \in 1..Len(tbl) |-> 0])
        /\ gpc = "idle"
        /\ rendered = [body |-> 0, geom |-> 0]
        /\ meshOut = [geom |-> 0, result |-> "none"]

\* the two-body table (world, one body) the geom operations are run on
GeomBodies == <<Body(0, 0), Body(1, 0)>>

\* mj_model.body_geomnum: the number of geoms of the body
body_geomnum(body) ==
    Cardinality({k \in 1..Len(geoms) : geoms[k].body_id = body.id})

\* mj_model.body_geomadr: index of the body's first geom, -1 without geoms
body_geomadr(body) ==
    IF body_geomnum(body) = 0 THEN -1
    ELSE (CHOOSE k \in 1..Len(geoms) :
            /\ geoms[k].body_id = body.id
            /\ \A l \in 1..k - 1 : geoms[l].body_id # body.id) - 1

\* Body::geoms: positions of geoms[geom_addr + i] for i in 0..geom_n
BodyGeoms(body) ==
    [i \in 1..body_geomnum(body) |-> body_geomadr(body) + i]

\* mutant: the lower group sorts first
CompareGroupAscending(g1, g2) ==
    IF g1.geom_type = "MESH" /\ g2.geom_type # "MESH" THEN "Less"
    ELSE IF g1.geom_type # "MESH" /\ g2.geom_type = "MESH" THEN "Greater"
    ELSE IF g1.geom_group < g2.geom_group THEN "Less" ELSE "Greater"

\* the comparator closure of render_geom
Compare(g1, g2) ==
    IF g1.geom_type = "MESH" /\ g2.geom_type # "MESH" THEN "Less"
    ELSE IF g1.geom_type # "MESH" /\ g2.geom_type = "MESH" THEN "Greater"
    ELSE IF g1.geom_group < g2.geom_group THEN "Greater" ELSE "Less"

\* the rearrangements of 1..n
PermsOf(n) == { f \in [1..n -> 1..n] : \A i, j \in 1..n : i # j => f[i] # f[j] }

\* sorted_by (a stable sort asking only whether compare answers Less): the
\* orders it can leave the candidates in. An element the comparator puts
\* strictly before another precedes it; two elements for which it answers
\* Less both ways may end in either order
SortedBy(cands) ==
    { perm \in { [i \in 1..Len(cands) |-> cands[f[i]]] : f \in PermsOf(Len(cands)) } :
        \A i, j \in 1..Len(cands) :
            i < j => ~ ( /\ Compare(geoms[perm[j]], geoms[perm[i]]) = "Less"
                         /\ Compare(geoms[perm[i]], geoms[perm[j]]) # "Less" ) }

\* geoms.iter().filter(|g| g.body_id == self.id)
GeomQuery(body) ==
    InOrder({k \in 1..Len(geoms) : geoms[k].body_id = body.id}, Len(geoms))

\* mutant: the group filter keeps every geom of the body
RenderCandidatesUnfiltered(body) == BodyGeoms(body)

\* self.geoms(geoms).iter().filter(|g| g.geom_group < 3)
RenderCandidates(body) ==
    LET bg == BodyGeoms(body)
        keep == InOrder({i \in 1..Len(bg) : geoms[bg[i]].geom_group < GroupThreshold},
                        Len(bg))
    IN  [i \in 1..Len(keep) |-> bg[keep[i]]]

\* Iterator::last: the geom position, 0 for None
LastOf(seq) == IF seq = <<>> THEN 0 ELSE seq[Len(seq)]

\* mutant: the first of the sorted candidates is taken
FirstOf(seq) == IF seq = <<>> THEN 0 ELSE seq[1]

\* the candidate render_geom takes from the sorted vector
Selected(sorted) == LastOf(sorted)

\* Body::render_geom, the early return: the body's only geom
RenderGeomSingle ==
    /\ \E b \in 1..Len(bodies) :
          /\ Len(GeomQuery(bodies[b])) = 1
          /\ rendered' = [body |-> b, geom |-> LastOf(GeomQuery(bodies[b]))]
    /\ gpc' = "rendered"
    /\ meshOut' = [geom |-> 0, result |-> "none"]
    /\ UNCHANGED <<geoms, treeVars, setupVars>>
    /\ UNCHANGED syncVars

\* Body::render_geom, the sorted selection among the geoms below the
\* group threshold
RenderGeomSorted ==
    /\ \E b \in 1..Len(bodies) :
          /\ Len(GeomQuery(bodies[b])) # 1
          /\ \E sorted \in SortedBy(RenderCandidates(bodies[b])) :
                rendered' = [body |-> b, geom |-> Selected(sorted)]
    /\ gpc' = "rendered"
    /\ meshOut' = [geom |-> 0, result |-> "none"]
    /\ UNCHANGED <<geoms, treeVars, setupVars>>
    /\ UNCHANGED syncVars

\* Geom::mesh (wrappers.rs): the shape the mesh is built from, "panic" for
\* the todo!() arms
GeomMeshResult(geom) ==
    CASE geom.geom_type = "PLANE" -> "Plane"
      [] geom.geom_type = "BOX" -> "Box"
      [] geom.geom_type = "SPHERE" -> "Icosphere"
      [] geom.geom_type = "CAPSULE" -> "Capsule"
      [] geom.geom_type = "ELLIPSOID" -> "panic"
      [] geom.geom_type = "CYLINDER" -> "Cylinder"
      [] geom.geom_type = "MESH" -> "Obj"
      [] geom.geom_type = "NONE" -> "panic"
      [] geom.geom_type = "HFIELD" -> "panic"

\* Geom::mesh called on a geom of the table
GeomMesh ==
    /\ \E g \in 1..Len(geoms) :
          meshOut' = [geom |-> g, result |-> GeomMeshResult(geoms[g])]
    /\ gpc' = "meshed"
    /\ rendered' = [body |-> 0, geom |-> 0]
    /\ UNCHANGED <<geoms, treeVars, setupVars>>
    /\ UNCHANGED syncVars

InitGeom ==
    /\ TreeIdle(GeomBodies)
    /\ SyncIdle
    /\ GeomTableInit(GeomBodies, ModelGeomTypes, Groups)
    /\ SetupIdle

NextGeom ==
    \/ RenderGeomSingle
    \/ RenderGeomSorted
    \/ GeomMesh

SpecGeom == InitGeom /\ [][NextGeom]_vars

\* ============================================ scene set-up: lib.rs model
\* the body tables set-up is run on: the world with one body, with a chain
\* of two bodies and with two bodies side by side
SetupTables ==
    { <<Body(0, 0), Body(1, 0)>>,
      <<Body(0, 0), Body(1, 0), Body(2, 1)>>,
      <<Body(0, 0), Body(1, 0), Body(2, 0)>> }

\* lib.rs Geom has no geom_group field: the group is left at its default
NoGroup == {0}

\* Geom::mesh (lib.rs): the shape the mesh is built from, "panic" for the
\* todo!() arms
LibGeomMeshResult(geom) ==
    CASE geom.geom_type = "PLANE" -> "Box"
      [] geom.geom_type = "BOX" -> "Box"
      [] geom.geom_type = "SPHERE" -> "Icosphere"
      [] geom.geom_type = "CAPSULE" -> "Capsule"
      [] geom.geom_type = "ELLIPSOID" -> "panic"
      [] geom.geom_type = "CYLINDER" -> "Cylinder"
      [] geom.geom_type = "MESH" -> "Obj"
      [] geom.geom_type = "NONE" -> "panic"
      [] geom.geom_type = "HFIELD" -> "panic"

\* geoms.iter().find(|geom| geom.body_id == body_id): position, 0 for None
FindGeom(body) == IF GeomQuery(body) = <<>> THEN 0 ELSE Head(GeomQuery(body))

\* commands.spawn_empty() / children.spawn_empty(): an untagged entity
EmptyEntity(parent) == [parent |-> parent, tag |-> -1]

\* entity_commands.commands().spawn(PbrBundle).insert(MuJoCoBody { id })
BodyEntity(body) == [parent |-> 0, tag |-> body.id]

\* the closure f called on tree node n with the entity e just spawned into
\* ents: spawn_body unwraps the body's first geom and builds its mesh, then
\* spawns the tagged entity, and f walks the children of n
CallSpawn(n, e, ents, frames) ==
    LET body == bodies[nodes[n].body]
        g == FindGeom(body)
    IN  /\ spawning' = nodes[n].body
        /\ IF g = 0
           THEN /\ failure' = "unwrap_none"
                /\ pc' = "panic"
                /\ entities' = ents
                /\ sstack' = frames
           ELSE IF LibGeomMeshResult(geoms[g]) = "panic"
           THEN /\ failure' = "todo"
                /\ pc' = "panic"
                /\ entities' = ents
                /\ sstack' = frames
           ELSE /\ failure' = failure
                /\ pc' = pc
                /\ entities' = Append(ents, BodyEntity(body))
                /\ sstack' = Append(frames, [node |-> n, rest |-> nodes[n].children,
                                             entity |-> e])

\* setup_mujoco: for body in mujoco.body_tree() (body_tree has returned)
SetupStart ==
    /\ pc = "done"
    /\ sIter' = trees
    /\ pc' = "setup"
    /\ UNCHANGED <<bodies, rootIter, nodes, stack, trees, wtree, wstack, out>>
    /\ UNCHANGED <<geomVars, sstack, entities, spawning, failure>>
    /\ UNCHANGED syncVars

\* setup_mujoco: commands.spawn_empty(); (spawn_entities.f)(.., body, ..)
SetupTree ==
    /\ pc = "setup"
    /\ sstack = <<>>
    /\ sIter # <<>>
    /\ CallSpawn(Head(sIter), Len(entities) + 1,
                 Append(entities, EmptyEntity(0)), sstack)
    /\ sIter' = Tail(sIter)
    /\ UNCHANGED <<bodies, rootIter, nodes, stack, trees, wtree, wstack, out>>
    /\ UNCHANGED geomVars
    /\ UNCHANGED syncVars

\* closure f: leaf = body.pop_back(); children.spawn_empty(); f(leaf)
SetupChild ==
    /\ pc = "setup"
    /\ sstack # <<>>
    /\ LET top == sstack[Len(sstack)]
       IN  /\ top.rest # <<>>
           /\ CallSpawn(PopBackLeaf(top.rest), Len(entities) + 1,
                        Append(entities, EmptyEntity(top.entity)),
                        [sstack EXCEPT ![Len(sstack)].rest = PopBackRest(top.rest)])
    /\ UNCHANGED <<bodies, rootIter, nodes, stack, trees, wtree, wstack, out>>
    /\ UNCHANGED <<geomVars, sIter>>
    /\ UNCHANGED syncVars

\* closure f: pop_back() is None, the call returns
SetupReturn ==
    /\ pc = "setup"
    /\ sstack # <<>>
    /\ sstack[Len(sstack)].rest = <<>>
    /\ sstack' = SubSeq(sstack, 1, Len(sstack) - 1)
    /\ UNCHANGED <<treeVars, geomVars, sIter, entities, spawning, failure>>
    /\ UNCHANGED syncVars

\* setup_mujoco: the loop over the forest ends
SetupDone ==
    /\ pc = "setup"
    /\ sstack = <<>>
    /\ sIter = <<>>
    /\ pc' = "spawned"
    /\ UNCHANGED <<bodies, rootIter, nodes, stack, trees, wtree, wstack, out>>
    /\ UNCHANGED <<geomVars, setupVars>>
    /\ UNCHANGED syncVars

InitSetup ==
    \E tbl \in SetupTables :
        /\ TreeIdle(tbl)
        /\ \/ GeomTableInit(tbl, ModelGeomTypes, NoGroup)
           \/ GeomPerBodyInit(tbl, ModelGeomTypes)
        /\ SetupIdle
        /\ SyncIdle

NextSetup ==
    \/ BodyTreeStart
    \/ NextRoot
    \/ CollectChild
    \/ ReturnChild
    \/ BodyTreeDone
    \/ SetupStart
    \/ SetupTree
    \/ SetupChild
    \/ SetupReturn
    \/ SetupDone

SpecSetup == InitSetup /\ [][NextSetup]_vars

\* ======================================= frame conversion: wrappers.rs,
\* adapters.rs
\* arr[i] with the source's indices, which start at 0
At(arr, i) == arr[i + 1]

\* replace_values_vec3 / replace_values_vec4 with the second store reading
\* the slot the first store has just written
ReplaceValuesClobber(arr, i1, i2) ==
    [arr EXCEPT ![i1 + 1] = At(arr, i2), ![i2 + 1] = At(arr, i2)]

\* replace_values_vec3 / replace_values_vec4: c_1 = arr[i1]; c_2 = arr[i2];
\* arr[i1] = c_2; arr[i2] = c_1
ReplaceValues(arr, i1, i2) ==
    [arr EXCEPT ![i1 + 1] = At(arr, i2), ![i2 + 1] = At(arr, i1)]

\* MuJoCo::bodies: the pos and quat a Body is stored with
LoadBody(s) ==
    [s EXCEPT !.pos = ReplaceValues(s.pos, 1, 2),
              !.quat = ReplaceValues(s.quat, 0, 3)]

\* MuJoCo::geoms: the pos, size and quat a Geom is stored with
LoadGeom(s) ==
    [s EXCEPT !.pos = ReplaceValues(s.pos, 1, 2),
              !.size = ReplaceValues(s.size, 1, 2),
              !.quat = ReplaceValues(s.quat, 0, 3)]

\* Vec3 - Vec3
Vec3Sub(a, b) == <<a[1] - b[1], a[2] - b[2], a[3] - b[3]>>

\* Body::translation / the local translation of Geom::translation
WrappersTranslation(pos) == <<At(pos, 0), At(pos, 2), At(pos, 1)>>

\* Body::rotation / Geom::rotation with quat[0] read for two components
WrappersRotationRepeated(quat) ==
    <<At(quat, 1), At(quat, 0), At(quat, 0), -At(quat, 3)>>

\* Body::rotation / Geom::rotation: Quat::from_xyzw(q[1], q[0], q[2], -q[3])
WrappersRotation(quat) ==
    <<At(quat, 1), At(quat, 0), At(quat, 2), -At(quat, 3)>>

\* Geom::correction with the offset of a box put on the first axis
WrappersCorrectionSideways(kind, size) ==
    CASE kind = "BOX"      -> <<At(size, 1) \div 2, 0, 0>>
      [] kind = "CAPSULE"  -> <<0, At(size, 1) * 2, 0>>
      [] kind = "CYLINDER" -> <<0, At(size, 2) * 2, 0>>
      [] OTHER             -> <<0, 0, 0>>

\* Geom::correction, on the stored size; the sizes drawn are even, so the
\* halving is exact as it is in floating point
WrappersCorrection(kind, size) ==
    CASE kind = "BOX"      -> <<0, At(size, 1) \div 2, 0>>
      [] kind = "CAPSULE"  -> <<0, At(size, 1) * 2, 0>>
      [] kind = "CYLINDER" -> <<0, At(size, 2) * 2, 0>>
      [] OTHER             -> <<0, 0, 0>>

\* adapters::geom_correction: size.swap(1, 2), then the match on the kind
AdaptersCorrection(kind, size) ==
    LET swapped == ReplaceValues(size, 1, 2)
    IN  CASE kind = "BOX"      -> <<0, At(swapped, 2) * 2, 0>>
          [] kind = "CAPSULE"  -> <<0, At(swapped, 1) * 2, 0>>
          [] kind = "CYLINDER" -> <<0, At(swapped, 2) * 2, 0>>
          [] OTHER             -> <<0, 0, 0>>

\* adapters::geom_rotation
AdaptersGeomRotation(kind, quat) ==
    IF kind = "MESH"
    THEN <<At(quat, 1), At(quat, 2), At(quat, 3), At(quat, 0)>>
    ELSE <<At(quat, 1), At(quat, 3), At(quat, 2), -At(quat, 0)>>

\* adapters::body_rotation
AdaptersBodyRotation(quat) ==
    <<At(quat, 1), At(quat, 2), At(quat, 3), At(quat, 0)>>

\* adapters::body_translation / the first operand of geom_translation
AdaptersTranslation(pos) == <<At(pos, 0), At(pos, 1), At(pos, 2)>>

\* the largest component of the positions and quaternions drawn
MaxCoord == 1

\* the size components drawn
SizeValues == {0, 2}

\* the subjects the conversions are applied to
InitConv ==
    /\ LateIdle
    /\ TreeIdle(GeomBodies)
    /\ GeomIdle
    /\ SetupIdle
    /\ \E k \in ModelGeomTypes, p \in [1..3 -> 0..MaxCoord],
          q \in [1..4 -> 0..MaxCoord], sz \in [1..3 -> SizeValues] :
          sim = [kind |-> k, pos |-> p, quat |-> q, size |-> sz]
    /\ conv = [op |-> "none", uncorrected |-> <<0, 0, 0>>,
               correction |-> <<0, 0, 0>>, translation |-> <<0, 0, 0>>,
               rotation |-> <<0, 0, 0, 0>>]
    /\ RelIdle
    /\ TickIdle
    /\ GuardIdle
    /\ MeshIdle
    /\ StateIdle

\* wrappers.rs: a body loaded by bodies(), then translation() and rotation()
WrappersBody ==
    /\ conv.op = "none"
    /\ LET body == LoadBody(sim)
       IN  conv' = [op |-> "wrappers_body",
                    uncorrected |-> WrappersTranslation(body.pos),
                    correction |-> <<0, 0, 0>>,
                    translation |-> WrappersTranslation(body.pos),
                    rotation |-> WrappersRotation(body.quat)]
    /\ UNCHANGED <<sim, convOthers>>

\* wrappers.rs: a geom loaded by geoms(), then translation() and rotation()
WrappersGeom ==
    /\ conv.op = "none"
    /\ LET geom == LoadGeom(sim)
           translation == WrappersTranslation(geom.pos)
           correction == WrappersCorrection(geom.kind, geom.size)
       IN  conv' = [op |-> "wrappers_geom",
                    uncorrected |-> translation,
                    correction |-> correction,
                    translation |-> Vec3Sub(translation, correction),
                    rotation |-> WrappersRotation(geom.quat)]
    /\ UNCHANGED <<sim, convOthers>>

\* adapters::body_transform
AdaptersBody ==
    /\ conv.op = "none"
    /\ conv' = [op |-> "adapters_body",
                uncorrected |-> AdaptersTranslation(sim.pos),
                correction |-> <<0, 0, 0>>,
                translation |-> AdaptersTranslation(sim.pos),
                rotation |-> AdaptersBodyRotation(sim.quat)]
    /\ UNCHANGED <<sim, convOthers>>

\* adapters::geom_transform
AdaptersGeom ==
    /\ conv.op = "none"
    /\ LET correction == AdaptersCorrection(sim.kind, sim.size)
       IN  conv' = [op |-> "adapters_geom",
                    uncorrected |-> AdaptersTranslation(sim.pos),
                    correction |-> correction,
                    translation |-> Vec3Sub(AdaptersTranslation(sim.pos), correction),
                    rotation |-> AdaptersGeomRotation(sim.kind, sim.quat)]
    /\ UNCHANGED <<sim, convOthers>>

NextConv ==
    \/ WrappersBody
    \/ WrappersGeom
    \/ AdaptersBody
    \/ AdaptersGeom

SpecConv == InitConv /\ [][NextConv]_vars

\* ================================== relative pose: the FrameConverter of
\* the specification (the per-tick system that computes it is not in src/)
\* the squared length of a 4-tuple
Norm2(n) == n[1] * n[1] + n[2] * n[2] + n[3] * n[3] + n[4] * n[4]

\* 2^k for the scales in use
Pow2(k) == CASE k = 0 -> 1 [] k = 1 -> 2 [] k = 2 -> 4 [] k = 3 -> 8 [] OTHER -> 16

\* the unit quaternions with components in {-1, 0, 1} / sqrt(2)^k: the 48
\* orientations that map the coordinate axes onto each other
Orientations ==
    { [v |-> n, k |-> k] : n \in { m \in [1..4 -> -1..1] : Norm2(m) \in {1, 2, 4} },
                           k \in 0..2 } \cap
    { q \in [v : [1..4 -> -1..1], k : 0..2] : Norm2(q.v) = Pow2(q.k) }

\* the half turns among them: the units 1, i, j, k and their negatives
LipschitzUnits == { q \in Orientations : q.k = 0 }

\* the one element of a singleton set: the operators below bind their
\* operands through singleton sets, so each operand is evaluated once
The(S) == CHOOSE x \in S : TRUE

\* the Hamilton product of two 4-tuples stored (x, y, z, w)
RawMul(a0, b0) ==
    The({ << a[4] * b[1] + a[1] * b[4] + a[2] * b[3] - a[3] * b[2],
             a[4] * b[2] - a[1] * b[3] + a[2] * b[4] + a[3] * b[1],
             a[4] * b[3] + a[1] * b[2] - a[2] * b[1] + a[3] * b[4],
             a[4] * b[4] - a[1] * b[1] - a[2] * b[2] - a[3] * b[3] >> :
          a \in {a0}, b \in {b0} })

\* n / sqrt(2)^k in lowest terms
RECURSIVE Reduce(_, _)
Reduce(n0, k0) ==
    The({ IF k >= 2 /\ \A i \in 1..4 : n[i] % 2 = 0
          THEN Reduce([i \in 1..4 |-> n[i] \div 2], k - 2)
          ELSE [v |-> n, k |-> k] :
          n \in {n0}, k \in {k0} })

\* Quat * Quat
QMul(a0, b0) ==
    The({ Reduce(RawMul(a.v, b.v), a.k + b.k) : a \in {a0}, b \in {b0} })

\* the conjugate, left unnegated
QInverseForgotten(q0) == q0

\* Quat::inverse of a unit quaternion: the conjugate
QInverse(q0) ==
    The({ [v |-> <<-q.v[1], -q.v[2], -q.v[3], q.v[4]>>, k |-> q.k] : q \in {q0} })

\* Quat * Vec3: the vector rotated by the unit quaternion
QRotate(q0, p0) ==
    The({ The({ <<n[1] \div Pow2(q.k), n[2] \div Pow2(q.k), n[3] \div Pow2(q.k)>> :
                n \in {RawMul(RawMul(q.v, <<p[1], p[2], p[3], 0>>), QInverse(q).v)} }) :
          q \in {q0}, p \in {p0} })

\* relative_pose(child_abs, parent_abs):
\* translation = inverse(parent_orientation) applied to
\* (child_position - parent_position),
\* rotation = inverse(parent_orientation) * child_orientation
RelativePose(child0, parent0) ==
    The({ [translation |-> QRotate(QInverse(parent.quat),
                                   Vec3Sub(child.pos, parent.pos)),
           rotation |-> QMul(QInverse(parent.quat), child.quat)] :
          child \in {child0}, parent \in {parent0} })

\* the absolute poses relative_pose is applied to: every parent pose, with
\* the child at every position, turned like its parent or by a half turn
InitRel ==
    /\ LateIdle
    /\ TreeIdle(GeomBodies)
    /\ GeomIdle
    /\ SetupIdle
    /\ ConvIdle
    /\ \E pp \in [1..3 -> 0..MaxCoord], pq \in Orientations,
          cp \in [1..3 -> 0..MaxCoord] :
          \E cq \in {pq} \cup LipschitzUnits :
              absPose = [child |-> [pos |-> cp, quat |-> cq],
                         parent |-> [pos |-> pp, quat |-> pq]]
    /\ rel = [done |-> FALSE, translation |-> <<0, 0, 0>>, rotation |-> QIdentity]
    /\ TickIdle
    /\ GuardIdle
    /\ MeshIdle
    /\ StateIdle

\* relative_pose(child_abs, parent_abs)
RelativePoseCall ==
    /\ ~rel.done
    /\ LET r == RelativePose(absPose.child, absPose.parent)
       IN  rel' = [done |-> TRUE, translation |-> r.translation,
                   rotation |-> r.rotation]
    /\ UNCHANGED <<absPose, relOthers>>

NextRel ==
    \/ RelativePoseCall

SpecRel == InitRel /\ [][NextRel]_vars

\* ============================================ PoseSync: the per-tick update
\* of the specification, configured as the examples configure it
\* (pause_simulation, target_fps); the system itself is not in src/
\* the largest frame budget 1 / target_frame_rate, in clock units
MaxBudget == 2

\* the largest sub-step of the simulation, in clock units
MaxStep == 2

\* no tick starts once the clock has passed MaxTime
MaxTime == 4

\* the control values the controller draws
Controls == {0, 1}

\* the fixed correction of a root body: a quarter turn about the first
\* (horizontal) axis
QuarterTurn == [v |-> <<-1, 0, 0, 1>>, k |-> 1]

\* the poses a sub-step can leave a body in
PoseSamples ==
    { OriginPose,
      [pos |-> <<0, 0, 1>>, quat |-> QIdentity],
      [pos |-> <<1, 0, 0>>, quat |-> [v |-> <<0, 0, 1, 1>>, k |-> 1]] }

\* the transform of the root body: its pose relative to the world frame,
\* with the fixed correction applied to translation and rotation
RootTransform(pose) ==
    The({ [translation |-> QRotate(QuarterTurn, r.translation),
           rotation |-> QMul(QuarterTurn, r.rotation)] :
          r \in {RelativePose(pose, OriginPose)} })

\* update: one relative transform per tagged scene node; the geoms of the
\* two bodies followed are meshes, which take no anchor correction
SyncTransforms(table) ==
    The({ [root |-> RootTransform(poses.root),
           child |-> RelativePose(poses.child, poses.root)] :
          poses \in {table} })

\* the pose tables a sub-step can leave the simulation in
PoseTables == [root : PoseSamples, child : PoseSamples]

\* the tick of a paused simulation steps whatever the setting says
TickSkipsNever(pause) == FALSE

\* pause: halts stepping, retains the last pose
TickSkips(pause) == pause

\* the catch-up loop leaves after its first sub-step
LoopGuardOnce(now, start, frame) == now = start

\* the catch-up loop goes on while the clock has advanced by less than
\* 1 / target_frame_rate since the start of the frame
LoopGuard(now, start, frame) == now - start < frame

\* the simulation before the first frame, for every configuration
InitTick ==
    /\ LateIdle
    /\ TreeIdle(GeomBodies)
    /\ GeomIdle
    /\ SetupIdle
    /\ ConvIdle
    /\ RelIdle
    /\ paused \in BOOLEAN
    /\ budget \in 1..MaxBudget
    /\ timestep \in 1..MaxStep
    /\ time = 0
    /\ simStart = 0
    /\ tpc = "idle"
    /\ nstep = 0
    /\ xabs = [root |-> OriginPose, child |-> OriginPose]
    /\ transforms = SyncTransforms(xabs)
    /\ control = 0
    /\ simCtrl = 0
    /\ GuardIdle
    /\ MeshIdle
    /\ StateIdle

\* examples/unitree_a1_walk.rs robot_control_loop: a fresh control value
ControlLoop ==
    /\ tpc # "stepping"
    /\ \E c \in Controls : control' = c
    /\ control' # control
    /\ UNCHANGED <<paused, budget, timestep, time, simStart, tpc, nstep, xabs,
                   transforms, simCtrl>>
    /\ UNCHANGED tickOthers

\* the pause setting is changed between two frames
SetPause ==
    /\ tpc # "stepping"
    /\ paused' = ~paused
    /\ UNCHANGED <<budget, timestep, time, simStart, tpc, nstep, xabs,
                   transforms, control, simCtrl>>
    /\ UNCHANGED tickOthers

\* a frame of a paused simulation: no stepping, the transforms stay
TickPaused ==
    /\ tpc # "stepping"
    /\ TickSkips(paused)
    /\ tpc' = "skipped"
    /\ UNCHANGED <<paused, budget, timestep, time, simStart, nstep, xabs,
                   transforms, control, simCtrl>>
    /\ UNCHANGED tickOthers

\* a frame starts: the control vector is written into the simulation, the
\* clock is read
TickStart ==
    /\ tpc # "stepping"
    /\ ~TickSkips(paused)
    /\ time <= MaxTime
    /\ simCtrl' = control
    /\ simStart' = time
    /\ tpc' = "stepping"
    /\ UNCHANGED <<paused, budget, timestep, time, nstep, xabs, transforms,
                   control>>
    /\ UNCHANGED tickOthers

\* one sub-step of the catch-up loop: the clock advances by the sub-step,
\* the bodies move
SubStep ==
    /\ tpc = "stepping"
    /\ LoopGuard(time, simStart, budget)
    /\ time' = time + timestep
    /\ nstep' = nstep + 1
    /\ \E poses \in PoseTables : xabs' = poses
    /\ UNCHANGED <<paused, budget, timestep, simStart, tpc, transforms, control,
                   simCtrl>>
    /\ UNCHANGED tickOthers

\* the loop has caught up: the state is read and the transforms of the
\* scene nodes are written
TickSync ==
    /\ tpc = "stepping"
    /\ ~LoopGuard(time, simStart, budget)
    /\ transforms' = SyncTransforms(xabs)
    /\ tpc' = "synced"
    /\ UNCHANGED <<paused, budget, timestep, time, simStart, nstep, xabs,
                   control, simCtrl>>
    /\ UNCHANGED tickOthers

NextTick ==
    \/ ControlLoop
    \/ SetPause
    \/ TickPaused
    \/ TickStart
    \/ SubStep
    \/ TickSync

SpecTick == InitTick /\ [][NextTick]_vars

\* the catch-up loop is a busy loop inside one run of the system: each of
\* its iterations, and the update after it, runs once it can
FairSpecTick == SpecTick /\ WF_vars(SubStep) /\ WF_vars(TickSync)

\* ================================= scheduling: the systems that take the
\* MuJoCo resource, lib.rs
\* no frame starts after MaxFrames frames
MaxFrames == 2

\* simulate_physics asking for the resource as setup_mujoco does
SharedSimulateAccess == "Res"

\* simulate_physics(mujoco: ResMut<MuJoCo>, ..)
SimulateAccess == "ResMut"

\* the access to the MuJoCo resource a system declares in its parameters
Access(s) ==
    CASE s = "simulate_physics"   -> SimulateAccess
      [] s = "setup_mujoco"       -> "Res"
      [] s = "observer"           -> "Res"
      [] s = "robot_control_loop" -> "None"

\* app.add_startup_system(setup_mujoco); app.add_system(..) for the others
StageOf(s) == IF s = "setup_mujoco" THEN "startup" ELSE "update"

\* the systems the application has registered
Registered == IF hasObserver THEN Systems ELSE Systems \ {"observer"}

\* the calls into the resource a system makes: the tick steps and reads
\* the state (time, xpos, xquat); set-up and the observer read
Calls(s) ==
    CASE s = "simulate_physics"   -> {"step", "read"}
      [] s = "setup_mujoco"       -> {"read"}
      [] s = "observer"           -> {"read"}
      [] s = "robot_control_loop" -> {}

\* two declared accesses to one resource that cannot be held together:
\* ResMut excludes Res and ResMut
Conflicts(a, b) ==
    \/ a = "ResMut" /\ b # "None"
    \/ b = "ResMut" /\ a # "None"

\* the application before its first schedule runs
InitGuard ==
    /\ LateIdle
    /\ TreeIdle(GeomBodies)
    /\ GeomIdle
    /\ SetupIdle
    /\ ConvIdle
    /\ RelIdle
    /\ TickIdle
    /\ stage = "startup"
    /\ nframes = 0
    /\ running = {}
    /\ finished = {}
    /\ doing = [s \in Systems |-> "idle"]
    /\ hasObserver \in BOOLEAN
    /\ MeshIdle
    /\ StateIdle

\* the executor starts a system of the stage whose access conflicts with
\* that of no running system
SystemStart ==
    /\ \E s \in Registered \ (running \cup finished) :
          /\ StageOf(s) = stage
          /\ \A r \in running : ~Conflicts(Access(s), Access(r))
          /\ running' = running \cup {s}
    /\ UNCHANGED <<stage, nframes, finished, doing, hasObserver>>
    /\ UNCHANGED guardOthers

\* a running system enters step() or a state read
CallEnter ==
    /\ \E s \in running :
          /\ doing[s] = "idle"
          /\ \E c \in Calls(s) : doing' = [doing EXCEPT ![s] = c]
    /\ UNCHANGED <<stage, nframes, running, finished, hasObserver>>
    /\ UNCHANGED guardOthers

\* the call returns
CallReturn ==
    /\ \E s \in running :
          /\ doing[s] # "idle"
          /\ doing' = [doing EXCEPT ![s] = "idle"]
    /\ UNCHANGED <<stage, nframes, running, finished, hasObserver>>
    /\ UNCHANGED guardOthers

\* a system returns
SystemFinish ==
    /\ \E s \in running :
          /\ doing[s] = "idle"
          /\ running' = running \ {s}
          /\ finished' = finished \cup {s}
    /\ UNCHANGED <<stage, nframes, doing, hasObserver>>
    /\ UNCHANGED guardOthers

\* every system of the stage has run: the startup schedule is followed by
\* the first frame, a frame by the next
StageEnd ==
    /\ running = {}
    /\ finished = { s \in Registered : StageOf(s) = stage }
    /\ nframes < MaxFrames
    /\ finished' = {}
    /\ stage' = "update"
    /\ nframes' = IF stage = "update" THEN nframes + 1 ELSE nframes
    /\ UNCHANGED <<running, doing, hasObserver>>
    /\ UNCHANGED guardOthers

NextGuard ==
    \/ SystemStart
    \/ CallEnter
    \/ CallReturn
    \/ SystemFinish
    \/ StageEnd

SpecGuard == InitGuard /\ [][NextGuard]_vars

\* ================================================ meshes: wrappers.rs model
\* the largest number of meshes of a model
MaxMeshes == 2

\* the largest number of vertices of a mesh
MaxVerts == 3

\* the largest number of faces of a mesh
MaxFaces == 2

\* the sum of the first n entries of s
RECURSIVE SumTo(_, _)
SumTo(s, n) == IF n = 0 THEN 0 ELSE SumTo(s, n - 1) + s[n]

\* mesh_vertadr(i) / mesh_faceadr(i): the meshes lie one after the other,
\* so mesh i starts where the meshes before it end
Adr(nums, i) == SumTo(nums, i)

\* nmesh()
nmesh == Len(store.vertnum)

\* mesh_vertnum(i), mesh_facenum(i), mesh_vertadr(i), mesh_faceadr(i)
mesh_vertnum(i) == store.vertnum[i + 1]
mesh_facenum(i) == store.facenum[i + 1]
mesh_vertadr(i) == Adr(store.vertnum, i)
mesh_faceadr(i) == Adr(store.facenum, i)

\* the mark of a read past the end of an array; meshes() makes none, the
\* offsets it adds stay below the lengths of the arrays
Garbage == -1

\* *array.add(k): the entry at offset k
Deref(array, k) == IF k < Len(array) THEN array[k + 1] ELSE Garbage

\* extract_vector_float_f32 on the pointer array.add(base): the entries
\* base + i * element_size + j, in order
ExtractVectorFloat(array, base, element_size, n_entries) ==
    [m \in 1..element_size * n_entries |-> Deref(array, base + m - 1)]

\* extract_mesh_attribute: the floats from array.add(offset), in chunks of 3
ExtractMeshAttribute(array, offset, count) ==
    LET point_array == ExtractVectorFloat(array, offset, 3, count)
    IN  [p \in 1..count |->
            <<point_array[3 * p - 2], point_array[3 * p - 1], point_array[3 * p]>>]

\* extract_indices with the loop running over face_addr..face_num
ExtractIndicesToFaceNum(array, face_addr, face_num) ==
    LET n == IF face_num > face_addr THEN face_num - face_addr ELSE 0
    IN  [m \in 1..3 * n |->
            Deref(array, face_addr + ((m - 1) \div 3) + ((m - 1) % 3))]

\* extract_indices: for j in face_addr..face_addr + face_num the entries
\* array.add(j).add(0), .add(1), .add(2)
ExtractIndices(array, face_addr, face_num) ==
    [m \in 1..3 * face_num |->
        Deref(array, face_addr + ((m - 1) \div 3) + ((m - 1) % 3))]

\* the mesh arrays of a model whose meshes have vn vertices and fn faces:
\* three floats a vertex and a normal, three indices a face; an entry of
\* vert and of face holds its own offset, the entries of normal are the
\* numbers below -1
MeshStore(vn, fn) ==
    [vertnum |-> vn, facenum |-> fn,
     vert |-> [k \in 1..3 * SumTo(vn, Len(vn)) |-> k - 1],
     normal |-> [k \in 1..3 * SumTo(vn, Len(vn)) |-> -1 - k],
     face |-> [k \in 1..3 * SumTo(fn, Len(fn)) |-> k - 1]]

\* the models meshes() is called on
InitMesh ==
    /\ LateIdle
    /\ TreeIdle(GeomBodies)
    /\ GeomIdle
    /\ SetupIdle
    /\ ConvIdle
    /\ RelIdle
    /\ TickIdle
    /\ GuardIdle
    /\ \E n \in 0..MaxMeshes :
          \E vn \in [1..n -> 1..MaxVerts], fn \in [1..n -> 1..MaxFaces] :
              store = MeshStore(vn, fn)
    /\ mpc = "idle"
    /\ mi = 0
    /\ meshesOut = <<>>
    /\ StateIdle

\* meshes: let mut meshes = Vec::new(); the loop starts at 0
MeshesStart ==
    /\ mpc = "idle"
    /\ mpc' = "loop"
    /\ mi' = 0
    /\ meshesOut' = <<>>
    /\ UNCHANGED store
    /\ UNCHANGED meshOthers

\* meshes: the body of the loop for mesh i
MeshesNext ==
    /\ mpc = "loop"
    /\ mi < nmesh
    /\ LET vertadr == mesh_vertadr(mi)
           vertnum == mesh_vertnum(mi)
           faceadr == mesh_faceadr(mi)
           facenum == mesh_facenum(mi)
       IN  meshesOut' = Append(meshesOut,
               [vertices |-> ExtractMeshAttribute(store.vert, vertadr, vertnum),
                normals |-> ExtractMeshAttribute(store.normal, vertadr, vertnum),
                indices |-> ExtractIndices(store.face, faceadr, facenum),
                name |-> mi])
    /\ mi' = mi + 1
    /\ UNCHANGED <<store, mpc>>
    /\ UNCHANGED meshOthers

\* meshes: the loop has ended, meshes is returned
MeshesDone ==
    /\ mpc = "loop"
    /\ mi >= nmesh
    /\ mpc' = "done"
    /\ UNCHANGED <<store, mi, meshesOut>>
    /\ UNCHANGED meshOthers

NextMesh ==
    \/ MeshesStart
    \/ MeshesNext
    \/ MeshesDone

SpecMesh == InitMesh /\ [][NextMesh]_vars

\* ======================================= state accessors: wrappers.rs model
\* the values a body's position and orientation (w, x, y, z) are drawn from
RawPoses ==
    { [pos |-> <<0, 0, 0>>, quat |-> <<1, 0, 0, 0>>],
      [pos |-> <<1, 2, 3>>, quat |-> <<0, 1, 2, 3>>] }

\* what a read past the end of an array can find there
GarbageValues == {7, 9}

\* the concatenation of the sequences of s
RECURSIVE Flatten(_)
Flatten(s) == IF s = <<>> THEN <<>> ELSE Head(s) \o Flatten(Tail(s))

\* nbody(), ngeom()
nbody == dims.nbody
ngeom == dims.ngeom

\* extract_vector_float_f64(vec, element_size, n_entries): the results the
\* copy can have; an entry past the end of the array is whatever lies there
ExtractVectorFloat64(array, element_size, n_entries) ==
    { [m \in 1..element_size * n_entries |->
          IF m <= Len(array) THEN array[m] ELSE g[m]] :
      g \in [Len(array) + 1..element_size * n_entries -> GarbageValues] }

\* the copy reads past the end of the array
ReadsPastEnd(array, element_size, n_entries) ==
    element_size * n_entries > Len(array)

\* xpos: entry i of the loop over 0..ngeom()
XposEntry(raw_xpos, i) ==
    <<raw_xpos[i * 3 + 1], raw_xpos[i * 3 + 2 + 1], raw_xpos[i * 3 + 1 + 1]>>

\* xquat: entry i of the loop over 0..ngeom()
XquatEntry(raw_quat, i) ==
    <<raw_quat[i * 4 + 3 + 1], raw_quat[i * 4 + 1 + 1], raw_quat[i * 4 + 2 + 1],
      raw_quat[i * 4 + 1]>>

\* the models the accessors are called on
InitState ==
    /\ LateIdle
    /\ TreeIdle(GeomBodies)
    /\ GeomIdle
    /\ SetupIdle
    /\ ConvIdle
    /\ RelIdle
    /\ TickIdle
    /\ GuardIdle
    /\ MeshIdle
    /\ \E nb \in 1..MaxBodies, ng \in 0..MaxGeoms :
          \E poses \in [1..nb -> RawPoses] :
              /\ dims = [nbody |-> nb, ngeom |-> ng]
              /\ xraw = [xpos |-> Flatten([b \in 1..nb |-> poses[b].pos]),
                         xquat |-> Flatten([b \in 1..nb |-> poses[b].quat])]
    /\ xout = [op |-> "none", entries |-> <<>>, crashed |-> FALSE]

\* MuJoCo::xpos
Xpos ==
    /\ xout.op = "none"
    /\ \/ \E raw_xpos \in ExtractVectorFloat64(xraw.xpos, 3, ngeom) :
             xout' = [op |-> "xpos",
                      entries |-> [i \in 1..ngeom |-> XposEntry(raw_xpos, i - 1)],
                      crashed |-> FALSE]
       \/ /\ ReadsPastEnd(xraw.xpos, 3, ngeom)
          /\ xout' = [op |-> "xpos", entries |-> <<>>, crashed |-> TRUE]
    /\ UNCHANGED <<dims, xraw>>
    /\ UNCHANGED stateOthers

\* MuJoCo::xquat
Xquat ==
    /\ xout.op = "none"
    /\ \/ \E raw_quat \in ExtractVectorFloat64(xraw.xquat, 4, ngeom) :
             xout' = [op |-> "xquat",
                      entries |-> [i \in 1..ngeom |-> XquatEntry(raw_quat, i - 1)],
                      crashed |-> FALSE]
       \/ /\ ReadsPastEnd(xraw.xquat, 4, ngeom)
          /\ xout' = [op |-> "xquat", entries |-> <<>>, crashed |-> TRUE]
    /\ UNCHANGED <<dims, xraw>>
    /\ UNCHANGED stateOthers

NextState ==
    \/ Xpos
    \/ Xquat

SpecState == InitState /\ [][NextState]_vars

\* ====================================== primitive shapes: Geom::mesh and
\* the anchor correction in wrappers.rs, adapters.rs and lib.rs
\* the extent substituted for a plane of size 0 ("MuJoCo size 0 means
\* infinite")
InfiniteExtent == 1000000

\* the size components drawn: even, so that halving is exact; a compiled
\* model holds no negative size
ShapeSizes == {0, 2, 4}

\* a generated primitive: the bevy shape, its x, y, z lengths (Plane { size },
\* Box::new), its radius (Icosphere, Capsule, Cylinder) and its length along
\* its axis (Capsule depth, Cylinder height)
Primitive(shape, extent, radius, length) ==
    [shape |-> shape, extent |-> extent, radius |-> radius, length |-> length]

\* the arms that build no primitive: a stored mesh, or todo!()
OtherShape(kind) ==
    Primitive(IF kind = "MESH" THEN "Mesh" ELSE "panic", <<0, 0, 0>>, 0, 0)

\* the PLANE arm of Geom::mesh (wrappers.rs) and geom_mesh (adapters.rs)
PlaneSize(size) == IF At(size, 0) > 0 THEN At(size, 0) ELSE InfiniteExtent

\* Geom::mesh (wrappers.rs), on the stored size
WrappersMeshOf(kind, size) ==
    CASE kind = "PLANE" ->
            Primitive("Plane", <<PlaneSize(size), 0, PlaneSize(size)>>, 0, 0)
      [] kind = "BOX" ->
            Primitive("Box", <<At(size, 0), At(size, 1), At(size, 2)>>, 0, 0)
      [] kind = "SPHERE" ->
            Primitive("Icosphere", <<0, 0, 0>>, At(size, 0), 0)
      [] kind = "CAPSULE" ->
            Primitive("Capsule", <<0, 0, 0>>, At(size, 0), At(size, 2) * 2)
      [] kind = "CYLINDER" ->
            Primitive("Cylinder", <<0, 0, 0>>, At(size, 0), At(size, 2) * 2)
      [] OTHER -> OtherShape(kind)

\* adapters::geom_mesh: size.swap(1, 2), then the match on the kind
AdaptersMeshOf(kind, size) ==
    LET swapped == ReplaceValues(size, 1, 2)
    IN  CASE kind = "PLANE" ->
                Primitive("Plane", <<PlaneSize(swapped), 0, PlaneSize(swapped)>>,
                          0, 0)
          [] kind = "BOX" ->
                Primitive("Box", <<At(swapped, 0), At(swapped, 1), At(swapped, 2)>>,
                          0, 0)
          [] kind = "SPHERE" ->
                Primitive("Icosphere", <<0, 0, 0>>, At(swapped, 0), 0)
          [] kind = "CAPSULE" ->
                Primitive("Capsule", <<0, 0, 0>>, At(swapped, 0), At(swapped, 2) * 2)
          [] kind = "CYLINDER" ->
                Primitive("Cylinder", <<0, 0, 0>>, At(swapped, 0), At(swapped, 2) * 2)
          [] OTHER -> OtherShape(kind)

\* Geom::mesh (lib.rs), on the stored size
LibMeshOf(kind, size) ==
    CASE kind = "PLANE" ->
            Primitive("Box", <<At(size, 0), At(size, 1), At(size, 2)>>, 0, 0)
      [] kind = "BOX" ->
            Primitive("Box", <<At(size, 0), At(size, 1), At(size, 2)>>, 0, 0)
      [] kind = "SPHERE" ->
            Primitive("Icosphere", <<0, 0, 0>>, At(size, 0), 0)
      [] kind = "CAPSULE" ->
            Primitive("Capsule", <<0, 0, 0>>, At(size, 0), At(size, 1) * 2)
      [] kind = "CYLINDER" ->
            Primitive("Cylinder", <<0, 0, 0>>, At(size, 0), At(size, 2) * 2)
      [] OTHER -> OtherShape(kind)

\* the record of a built primitive and the corrections computed for it
BuiltShape(op, mesh, correction, other) ==
    [op |-> op, shape |-> mesh.shape, extent |-> mesh.extent,
     radius |-> mesh.radius, length |-> mesh.length,
     correction |-> correction, adapters_correction |-> other]

\* the geoms primitives are built from
InitShape ==
    /\ TreeIdle(GeomBodies)
    /\ GeomIdle
    /\ SetupIdle
    /\ ConvIdle
    /\ RelIdle
    /\ TickIdle
    /\ GuardIdle
    /\ MeshIdle
    /\ StateIdle
    /\ SpawnIdle
    /\ CylIdle
    /\ \E k \in ModelGeomTypes, sz \in [1..3 -> ShapeSizes] :
          gsim = [kind |-> k, size |-> sz]
    /\ gbuilt = [op |-> "none", shape |-> "none", extent |-> <<0, 0, 0>>,
                 radius |-> 0, length |-> 0, correction |-> <<0, 0, 0>>,
                 adapters_correction |-> <<0, 0, 0>>]

\* wrappers.rs: the size swapped by geoms(), then mesh() and correction()
WrappersMesh ==
    /\ gbuilt.op = "none"
    /\ LET size == ReplaceValues(gsim.size, 1, 2)
       IN  gbuilt' = BuiltShape("wrappers", WrappersMeshOf(gsim.kind, size),
                            WrappersCorrection(gsim.kind, size), <<0, 0, 0>>)
    /\ UNCHANGED <<gsim, shapeOthers>>

\* adapters.rs: geom_mesh and geom_correction on the simulation's size
AdaptersMesh ==
    /\ gbuilt.op = "none"
    /\ gbuilt' = BuiltShape("adapters", AdaptersMeshOf(gsim.kind, gsim.size),
                        AdaptersCorrection(gsim.kind, gsim.size),
                        AdaptersCorrection(gsim.kind, gsim.size))
    /\ UNCHANGED <<gsim, shapeOthers>>

\* lib.rs: the size swapped by geoms(), then mesh(); transform() subtracts
\* no correction
LibMesh ==
    /\ gbuilt.op = "none"
    /\ LET size == ReplaceValues(gsim.size, 1, 2)
       IN  gbuilt' = BuiltShape("lib", LibMeshOf(gsim.kind, size), <<0, 0, 0>>,
                            <<0, 0, 0>>)
    /\ UNCHANGED <<gsim, shapeOthers>>

\* the two anchor corrections of one geom: Geom::correction on the geom as
\* geoms() stores it, geom_correction on the simulation's values
Corrections ==
    /\ gbuilt.op = "none"
    /\ gbuilt' = BuiltShape("corrections", OtherShape("NONE"),
                        WrappersCorrection(gsim.kind,
                                           ReplaceValues(gsim.size, 1, 2)),
                        AdaptersCorrection(gsim.kind, gsim.size))
    /\ UNCHANGED <<gsim, shapeOthers>>

NextShape ==
    \/ WrappersMesh
    \/ AdaptersMesh
    \/ LibMesh
    \/ Corrections

SpecShape == InitShape /\ [][NextShape]_vars

\* ============================= the rotation of a spawned body: spawn_body
\* (lib.rs) and quat_mujoco_2_bevy (adapters.rs)
\* Quat::from_rotation_x(-FRAC_PI_2), stored (x, y, z, w)
FromRotationXBack == [v |-> <<-1, 0, 0, 1>>, k |-> 1]

\* Quat::from_rotation_y(FRAC_PI_2), stored (x, y, z, w)
FromRotationY == [v |-> <<0, 1, 0, 1>>, k |-> 1]

\* MuJoCo::bodies / MuJoCo::geoms (lib.rs): the quaternion as it is stored,
\* replace_values_vec4(quat, 0, 3)
LibLoadQuat(q) == [v |-> ReplaceValues(q.v, 0, 3), k |-> q.k]

\* Body::rotation / Geom::rotation (lib.rs):
\* Quat::from_xyzw(quat[0], quat[1], quat[2], quat[3])
LibRotation(q) ==
    [v |-> <<At(q.v, 0), At(q.v, 1), At(q.v, 2), At(q.v, 3)>>, k |-> q.k]

\* Body::transform (lib.rs): rotation = self.rotation() * self.rotation()
LibBodyTransformRotation(q) == QMul(LibRotation(q), LibRotation(q))

\* spawn_body: (body_transform.rotation * geom_transform.rotation)
\* * from_rotation_x(-FRAC_PI_2) * from_rotation_y(FRAC_PI_2)
SpawnRotation(body_rotation, geom_rotation) ==
    QMul(QMul(QMul(body_rotation, geom_rotation), FromRotationXBack),
         FromRotationY)

\* the argument of from_xyzw in quat_mujoco_2_bevy:
\* (quat[0], quat[2], quat[1], -quat[3])
AdaptersReordered(q) ==
    [v |-> <<At(q.v, 0), At(q.v, 2), At(q.v, 1), -At(q.v, 3)>>, k |-> q.k]

\* quat_mujoco_2_bevy: from_rotation_y(FRAC_PI_2) * from_xyzw(..)
QuatMujoco2Bevy(q) == QMul(FromRotationY, AdaptersReordered(q))

\* the quaternions of the geoms drawn: not turned, and a quarter turn
GeomQuats == { [v |-> <<1, 0, 0, 0>>, k |-> 0], [v |-> <<1, 0, 0, 1>>, k |-> 1] }

\* the bodies spawned: a root (parent 0) or a body under body 1, in each of
\* the 48 orientations, with its first geom
InitSpawn ==
    /\ TreeIdle(GeomBodies)
    /\ GeomIdle
    /\ SetupIdle
    /\ ConvIdle
    /\ RelIdle
    /\ TickIdle
    /\ GuardIdle
    /\ MeshIdle
    /\ StateIdle
    /\ ShapeIdle
    /\ CylIdle
    /\ \E p \in {WorldId, 1}, b \in Orientations, g \in GeomQuats :
          spawnIn = [parent_id |-> p, body_quat |-> b, geom_quat |-> g]
    /\ spawnOut = [op |-> "none", rotation |-> QIdentity]

\* spawn_body (lib.rs): the rotation of the entity spawned for the body,
\* whatever its parent_id
SpawnBody ==
    /\ spawnOut.op = "none"
    /\ spawnOut' =
          [op |-> "spawn_body",
           rotation |-> SpawnRotation(
               LibBodyTransformRotation(LibLoadQuat(spawnIn.body_quat)),
               LibRotation(LibLoadQuat(spawnIn.geom_quat)))]
    /\ UNCHANGED <<spawnIn, spawnOthers>>

\* quat_mujoco_2_bevy (adapters.rs) applied to the body's quaternion
ConvertQuat ==
    /\ spawnOut.op = "none"
    /\ spawnOut' = [op |-> "quat_mujoco_2_bevy",
                    rotation |-> QuatMujoco2Bevy(spawnIn.body_quat)]
    /\ UNCHANGED <<spawnIn, spawnOthers>>

NextSpawn ==
    \/ SpawnBody
    \/ ConvertQuat

SpecSpawn == InitSpawn /\ [][NextSpawn]_vars

\* ===================== the cylinder mesh: impl From<Cylinder> for Mesh in
\* mujoco_shape.rs
\* the largest resolution and number of subdivisions drawn below the defaults
MaxResolution == 3
MaxSubdivisions == 2

\* Cylinder::default(): resolution 20, subdivisions 4, the values geom_mesh
\* and Geom::mesh build every cylinder with
DefaultResolution == 20
DefaultSubdivisions == 4

\* mutant: the neighbour of the last vertex of a ring is not wrapped around
NextAroundUnwrapped(j, resolution) == j + 1

\* let j1 = (j + 1) % c.resolution
NextAround(j, resolution) == (j + 1) % resolution

\* the length of positions after add_ring(height, with_center)
AddRing(len, resolution, with_center) ==
    IF with_center THEN len + 1 + resolution ELSE len + resolution

\* indices.extend([a, b, c].iter().copied())
Extend(buffer, triple) == buffer \o triple

\* the two triangles of the shaft quad (i, j)
ShaftTriangles(buffer, i, j, resolution) ==
    LET base1 == resolution * i
        base2 == base1 + resolution
        j1 == NextAround(j, resolution)
    IN  Extend(Extend(buffer, <<base2 + j, base1 + j1, base1 + j>>),
               <<base2 + j, base2 + j1, base1 + j1>>)

\* the triangle j of the top circle
TopTriangleOf(buffer, j, resolution, top_offset) ==
    LET j1 == NextAround(j, resolution)
        base == top_offset + 1
    IN  Extend(buffer, <<top_offset, base + j, base + j1>>)

\* the triangle j of the bottom circle
BottomTriangleOf(buffer, j, resolution, bottom_offset) ==
    LET j1 == NextAround(j, resolution)
        base == bottom_offset + 1
    IN  Extend(buffer, <<bottom_offset, base + j1, base + j>>)

\* the cylinders converted: the defaults and the small ones, 0 included
InitCyl ==
    /\ TreeIdle(GeomBodies)
    /\ GeomIdle
    /\ SetupIdle
    /\ ConvIdle
    /\ RelIdle
    /\ TickIdle
    /\ GuardIdle
    /\ MeshIdle
    /\ StateIdle
    /\ ShapeIdle
    /\ SpawnIdle
    /\ \E r \in 0..MaxResolution \cup {DefaultResolution},
          s \in 0..MaxSubdivisions \cup {DefaultSubdivisions}, z \in BOOLEAN :
          cyl = [resolution |-> r, subdivisions |-> s, sized |-> z]
    /\ cpc = [at |-> "start", i |-> 0, j |-> 0]
    /\ clocals = [count |-> 0, top_offset |-> 0, bottom_offset |-> 0,
                  index_count |-> 0]
    /\ positions = 0
    /\ indices = <<>>
    /\ cfailure = "none"

\* the assert! on the arguments, then count and the empty positions
CylinderStart ==
    /\ cpc.at = "start"
    /\ IF cyl.sized /\ cyl.resolution > 0 /\ cyl.subdivisions > 0
       THEN /\ clocals' = [clocals EXCEPT
                    !.count = cyl.resolution * (cyl.subdivisions + 3) + 2]
            /\ cpc' = [at |-> "shaft_rings", i |-> 0, j |-> 0]
            /\ cfailure' = cfailure
       ELSE /\ cpc' = [cpc EXCEPT !.at = "panic"]
            /\ cfailure' = "assert_arguments"
            /\ clocals' = clocals
    /\ UNCHANGED <<cyl, positions, indices, cylOthers>>

\* for i in 0..(c.subdivisions + 1) { add_ring(.., false) }
ShaftRing ==
    /\ cpc.at = "shaft_rings"
    /\ cpc.i < cyl.subdivisions + 1
    /\ positions' = AddRing(positions, cyl.resolution, FALSE)
    /\ cpc' = [cpc EXCEPT !.i = cpc.i + 1]
    /\ UNCHANGED <<cyl, clocals, indices, cfailure, cylOthers>>

\* top_offset and add_ring(c.height * 0.5, true)
TopRing ==
    /\ cpc.at = "shaft_rings"
    /\ cpc.i >= cyl.subdivisions + 1
    /\ clocals' = [clocals EXCEPT
            !.top_offset = cyl.resolution * (cyl.subdivisions + 1)]
    /\ positions' = AddRing(positions, cyl.resolution, TRUE)
    /\ cpc' = [at |-> "bottom_ring", i |-> 0, j |-> 0]
    /\ UNCHANGED <<cyl, indices, cfailure, cylOthers>>

\* bottom_offset, add_ring(-c.height * 0.5, true),
\* assert_eq!(positions.len(), count), index_count and the empty indices
BottomRing ==
    /\ cpc.at = "bottom_ring"
    /\ positions' = AddRing(positions, cyl.resolution, TRUE)
    /\ IF positions' = clocals.count
       THEN /\ clocals' = [clocals EXCEPT
                    !.bottom_offset = clocals.top_offset + cyl.resolution + 1,
                    !.index_count = (6 * cyl.subdivisions * cyl.resolution)
                                    + 6 * cyl.resolution]
            /\ cpc' = [at |-> "shaft_quads", i |-> 0, j |-> 0]
            /\ cfailure' = cfailure
       ELSE /\ clocals' = [clocals EXCEPT
                    !.bottom_offset = clocals.top_offset + cyl.resolution + 1]
            /\ cpc' = [cpc EXCEPT !.at = "panic"]
            /\ cfailure' = "assert_positions"
    /\ UNCHANGED <<cyl, indices, cylOthers>>

\* for i in 0..c.subdivisions { for j in 0..c.resolution { .. } }: the body
\* of the inner loop for (i, j)
ShaftQuad ==
    /\ cpc.at = "shaft_quads"
    /\ indices' = ShaftTriangles(indices, cpc.i, cpc.j, cyl.resolution)
    /\ cpc' = IF cpc.j + 1 < cyl.resolution
              THEN [cpc EXCEPT !.j = cpc.j + 1]
              ELSE IF cpc.i + 1 < cyl.subdivisions
              THEN [cpc EXCEPT !.i = cpc.i + 1, !.j = 0]
              ELSE [at |-> "top_circle", i |-> 0, j |-> 0]
    /\ UNCHANGED <<cyl, clocals, positions, cfailure, cylOthers>>

\* for j in 0..c.resolution: the top circle triangle j
TopTriangle ==
    /\ cpc.at = "top_circle"
    /\ indices' = TopTriangleOf(indices, cpc.j, cyl.resolution, clocals.top_offset)
    /\ cpc' = IF cpc.j + 1 < cyl.resolution
              THEN [cpc EXCEPT !.j = cpc.j + 1]
              ELSE [at |-> "bottom_circle", i |-> 0, j |-> 0]
    /\ UNCHANGED <<cyl, clocals, positions, cfailure, cylOthers>>

\* for j in 0..c.resolution: the bottom circle triangle j
BottomTriangle ==
    /\ cpc.at = "bottom_circle"
    /\ indices' = BottomTriangleOf(indices, cpc.j, cyl.resolution,
                                   clocals.bottom_offset)
    /\ cpc' = IF cpc.j + 1 < cyl.resolution
              THEN [cpc EXCEPT !.j = cpc.j + 1]
              ELSE [at |-> "finish", i |-> 0, j |-> 0]
    /\ UNCHANGED <<cyl, clocals, positions, cfailure, cylOthers>>

\* assert_eq!(indices.len(), index_count); the normals, one a position, are
\* overwritten at top_offset..bottom_offset and bottom_offset..count; the
\* mesh is returned
CylinderFinish ==
    /\ cpc.at = "finish"
    /\ IF Len(indices) # clocals.index_count
       THEN /\ cpc' = [cpc EXCEPT !.at = "panic"]
            /\ cfailure' = "assert_indices"
       ELSE IF clocals.count > positions
       THEN /\ cpc' = [cpc EXCEPT !.at = "panic"]
            /\ cfailure' = "index_out_of_bounds"
       ELSE /\ cpc' = [cpc EXCEPT !.at = "done"]
            /\ cfailure' = cfailure
    /\ UNCHANGED <<cyl, clocals, positions, indices, cylOthers>>

NextCyl ==
    \/ CylinderStart
    \/ ShaftRing
    \/ TopRing
    \/ BottomRing
    \/ ShaftQuad
    \/ TopTriangle
    \/ BottomTriangle
    \/ CylinderFinish

SpecCyl == InitCyl /\ [][NextCyl]_vars

\* ================================================================ claims
\* body_tree has returned
Built == pc \in {"done", "walk", "walked"}

Positions == 1..Len(bodies)

\* the table positions stored in a sequence of node indices
BodiesOf(ns) == [k \in 1..Len(ns) |-> nodes[ns[k]].body]

\* a sequence of table positions in strictly ascending (table) order
Ascending(ps) == \A k \in 1..Len(ps) - 1 : ps[k] < ps[k + 1]

RECURSIVE SumSeq(_)
SumSeq(s) == IF s = <<>> THEN 0 ELSE Head(s) + SumSeq(Tail(s))

\* number of nodes of the tree rooted at node n
RECURSIVE TreeSize(_)
TreeSize(n) ==
    1 + SumSeq([k \in 1..Len(nodes[n].children) |-> TreeSize(nodes[n].children[k])])

ForestSize == SumSeq([k \in 1..Len(trees) |-> TreeSize(trees[k])])

\* following parent_id links from position i reaches a body with parent 0
RECURSIVE ReachesRoot(_, _)
ReachesRoot(i, fuel) ==
    IF bodies[i].parent_id = 0 THEN TRUE
    ELSE IF fuel = 0 THEN FALSE
    ELSE \E j \in Positions :
            bodies[j].id = bodies[i].parent_id /\ ReachesRoot(j, fuel - 1)

\* C1: in the returned forest the children of every node p are exactly the
\* bodies c with c.parent_id = p.id, c.id # c.parent_id and p.id # 0, and
\* every node is a root of the forest or the child of exactly one node
C1_ChildrenExact ==
    Built =>
        /\ \A n \in 1..Len(nodes) :
              LET p == bodies[nodes[n].body]
                  cs == BodiesOf(nodes[n].children)
              IN  /\ Ascending(cs)
                  /\ {cs[k] : k \in 1..Len(cs)} =
                        { c \in Positions : /\ bodies[c].parent_id = p.id
                                            /\ bodies[c].id # bodies[c].parent_id
                                            /\ p.id # 0 }
        /\ \A n \in 1..Len(nodes) :
              Cardinality({k \in 1..Len(trees) : trees[k] = n})
              + SumSeq([m \in 1..Len(nodes) |->
                    Cardinality({k \in 1..Len(nodes[m].children) :
                                    nodes[m].children[k] = n})]) = 1

\* a world root next to a root that has two children
C1_Witness ==
    /\ pc = "done"
    /\ \E n \in 1..Len(nodes) : bodies[nodes[n].body].id = 0 /\ nodes[n].children = <<>>
    /\ \E n \in 1..Len(nodes) : Len(nodes[n].children) >= 2
    /\ \E c \in Positions : bodies[c].parent_id = 0 /\ bodies[c].id # 0

\* C2 (as stated): the forest has as many nodes as the table has bodies
\* with id # parent_id
C2_NodeCountNonSelfParented ==
    Built => ForestSize = Cardinality({i \in Positions : bodies[i].id # bodies[i].parent_id})

\* C2 (amended): the forest has as many nodes as the table has bodies from
\* which following parent_id links reaches a body whose parent_id is 0
C2_NodeCountReachingRoot ==
    Built => ForestSize = Cardinality({i \in Positions : ReachesRoot(i, Len(bodies))})

\* a forest with the self-parented world, a chain below another root and a
\* body that is left out
C2_Witness ==
    /\ pc = "done"
    /\ \E i \in Positions : bodies[i].id = 0 /\ bodies[i].parent_id = 0
    /\ \E n \in 1..Len(nodes) : nodes[n].children # <<>>
    /\ ForestSize < Len(bodies)

\* C3: the forest has as many trees as the table has bodies with parent 0;
\* an empty table gives an empty forest, a table of unparented bodies gives
\* single-node trees
C3_RootCount ==
    Built =>
        /\ Len(trees) = Cardinality({i \in Positions : bodies[i].parent_id = 0})
        /\ (bodies = <<>> => trees = <<>>)
        /\ ((\A i \in Positions : bodies[i].parent_id = 0) =>
                \A k \in 1..Len(trees) : nodes[trees[k]].children = <<>>)

\* a table of three or more bodies that all have parent 0
C3_Witness ==
    /\ pc = "done"
    /\ Len(bodies) >= 3
    /\ \A i \in Positions : bodies[i].parent_id = 0
    /\ Len(trees) = Len(bodies)

\* the bodies of the frames of collect_children, root first
PathBodies == [k \in 1..Len(stack) |-> nodes[stack[k].node].body]

\* C4: body_tree terminates (the call stack never overflows and trees is
\* returned) and no body occurs twice on the path from a root
C4_Terminates ==
    /\ [](pc # "overflow")
    /\ [](\A k, l \in 1..Len(stack) : k # l => PathBodies[k] # PathBodies[l])
    /\ <>(pc = "done")

\* body_tree has returned for a table with a self-parented world, another
\* self-parented body and a parent cycle among non-world bodies
C4_Witness ==
    /\ pc = "done"
    /\ \E i \in Positions : bodies[i].id = 0 /\ bodies[i].parent_id = 0
    /\ \E i \in Positions : bodies[i].id # 0 /\ bodies[i].parent_id = bodies[i].id
    /\ \E i, j \in Positions :
          /\ i # j
          /\ bodies[i].id # 0 /\ bodies[j].id # 0
          /\ bodies[i].parent_id = bodies[j].id
          /\ bodies[j].parent_id = bodies[i].id

\* the pre-order listing of the body at position b, siblings taken in
\* descending table order, computed from the table alone
RECURSIVE Descending(_, _, _)
Descending(b, level, fuel) ==
    LET kids == { c \in Positions : /\ bodies[c].parent_id = bodies[b].id
                                    /\ bodies[c].id # bodies[c].parent_id
                                    /\ bodies[b].id # 0 }
        Walk[k \in 0..Len(bodies)] ==
            \* the listings of the kids at positions > Len(bodies) - k
            IF k = 0 THEN <<>>
            ELSE LET c == Len(bodies) - k + 1
                 IN  IF c \in kids /\ fuel > 0
                     THEN Walk[k - 1] \o Descending(c, level + 1, fuel - 1)
                     ELSE Walk[k - 1]
    IN  <<[body |-> b, level |-> level]>> \o Walk[Len(bodies)]

\* the listing the test expects of the second tree of the reference table
RefListing ==
    <<"trunk", "RL_hip", "RL_thigh", "RL_calf", "RR_hip", "RR_thigh", "RR_calf",
      "FL_hip", "FL_thigh", "FL_calf", "FR_hip", "FR_thigh", "FR_calf">>

RefLevels == <<0, 1, 2, 3, 1, 2, 3, 1, 2, 3, 1, 2, 3>>

\* C5: roots and children are stored in table order, the pop_back walk
\* lists siblings in descending table order, and the reference table gives
\* the roots world, trunk and the listing of tests::bodies_tree
C5_TableOrder ==
    /\ Built =>
          /\ Ascending(BodiesOf(trees))
          /\ \A n \in 1..Len(nodes) : Ascending(BodiesOf(nodes[n].children))
    /\ pc = "walked" => out = Descending(nodes[trees[wtree]].body, 0, Len(bodies))
    /\ (Built /\ bodies = RefBodies) =>
          /\ Len(trees) = 2
          /\ RefNames[nodes[trees[1]].body] = "world"
          /\ RefNames[nodes[trees[2]].body] = "trunk"
    /\ (pc = "walked" /\ bodies = RefBodies /\ wtree = 2) =>
          /\ [k \in 1..Len(out) |-> RefNames[out[k].body]] = RefListing
          /\ [k \in 1..Len(out) |-> out[k].level] = RefLevels

\* the walk of the second tree of the reference table has finished
C5_Witness ==
    /\ pc = "walked"
    /\ bodies = RefBodies
    /\ wtree = 2
    /\ Len(out) = 13

\* ------------------------------------------------------------ render_geom
\* the geoms of the body at position b that pass the group filter
Qualifying(b) ==
    { k \in 1..Len(geoms) : /\ geoms[k].body_id = bodies[b].id
                            /\ geoms[k].geom_group < 3 }

\* C6: render_geom never returns a geom whose group is at or above 3, also
\* when the body owns exactly one geom
C6_NeverCollisionGeom ==
    (gpc = "rendered" /\ rendered.geom # 0) => geoms[rendered.geom].geom_group < 3

\* C7: when the body owns several geoms and those with group < 3 include a
\* Mesh and a primitive, render_geom returns a Mesh geom
C7_PrefersMesh ==
    ( /\ gpc = "rendered"
      /\ body_geomnum(bodies[rendered.body]) >= 2
      /\ \E k \in Qualifying(rendered.body) : geoms[k].geom_type = "MESH"
      /\ \E k \in Qualifying(rendered.body) : geoms[k].geom_type # "MESH" )
    => (rendered.geom # 0 /\ geoms[rendered.geom].geom_type = "MESH")

\* the case of C8: several qualifying geoms, all Mesh or all non-Mesh, with
\* pairwise different groups
C8_Case ==
    /\ gpc = "rendered"
    /\ Cardinality(Qualifying(rendered.body)) >= 2
    /\ \/ \A k \in Qualifying(rendered.body) : geoms[k].geom_type = "MESH"
       \/ \A k \in Qualifying(rendered.body) : geoms[k].geom_type # "MESH"
    /\ \A k, l \in Qualifying(rendered.body) :
          k # l => geoms[k].geom_group # geoms[l].geom_group

\* C8: among several qualifying geoms of one class with pairwise different
\* groups render_geom returns the one with the lowest group
C8_LowestGroup ==
    C8_Case =>
        /\ rendered.geom \in Qualifying(rendered.body)
        /\ \A k \in Qualifying(rendered.body) :
              geoms[rendered.geom].geom_group <= geoms[k].geom_group

\* the lowest group is returned although it comes first in the table
C8_Witness ==
    /\ C8_Case
    /\ rendered.geom # 0
    /\ \E k \in Qualifying(rendered.body) :
          k > rendered.geom /\ geoms[k].geom_group > geoms[rendered.geom].geom_group

\* C9: a body without a geom never makes scene construction fail: set-up
\* panics only while spawning a body that owns a geom
C9_GeomlessBodySkipped ==
    pc = "panic" => body_geomnum(bodies[spawning]) > 0

\* C10: mesh generation for an Ellipsoid or HeightField geom signals an
\* unsupported-kind error: it neither panics nor returns a mesh
C10_UnsupportedSignalled ==
    ( /\ gpc = "meshed"
      /\ geoms[meshOut.geom].geom_type \in {"ELLIPSOID", "HFIELD"} )
    => meshOut.result = "unsupported"

\* ------------------------------------------------ frame conversion claims
\* the geom kinds whose anchor is moved
Anchored == {"BOX", "CAPSULE", "CYLINDER"}

\* C11: the anchor correction of a geom is (0, c, 0), with c = 0 for every
\* kind other than Box, Capsule and Cylinder; the corrected translation of a
\* Mesh geom is its uncorrected translation
C11_CorrectionVertical ==
    conv.op \in {"wrappers_geom", "adapters_geom"} =>
        /\ conv.correction[1] = 0
        /\ conv.correction[3] = 0
        /\ sim.kind \notin Anchored => conv.correction[2] = 0
        /\ sim.kind = "MESH" => conv.translation = conv.uncorrected

\* a box of non-zero extent is moved along the second axis only
C11_Witness ==
    /\ conv.op = "wrappers_geom"
    /\ sim.kind = "BOX"
    /\ conv.correction[2] # 0
    /\ conv.translation # conv.uncorrected

\* C12: the translation handed to the renderer for simulation position
\* (x, y, z) is (x, z, y): the load swap and translation() together swap
\* the second and third components exactly once
C12_SwappedOnce ==
    conv.op \in {"wrappers_body", "wrappers_geom"} =>
        conv.uncorrected = <<sim.pos[1], sim.pos[3], sim.pos[2]>>

FromSwapped(r) == <<-r[4], r[1], r[3], r[2]>>

\* from storage (x, y, z, w) back to (w, x, y, z), components kept
FromPlain(r) == <<r[4], r[1], r[2], r[3]>>

C19_MeshCounts ==
    mpc = "done" =>
        /\ Len(meshesOut) = nmesh
        /\ \A i \in 0..nmesh - 1 :
              /\ meshesOut[i + 1].name = i
              /\ Len(meshesOut[i + 1].vertices) = mesh_vertnum(i)
              /\ Len(meshesOut[i + 1].normals) = mesh_vertnum(i)
              /\ Len(meshesOut[i + 1].indices) = 3 * mesh_facenum(i)

\* two meshes of different sizes have been returned
C19_Witness ==
    /\ mpc = "done"
    /\ nmesh = 2
    /\ mesh_vertnum(0) # mesh_vertnum(1)
    /\ mesh_facenum(0) > mesh_facenum(1)
    /\ Len(meshesOut) = 2

\* --------------------------------------------------- state accessor claims
\* C20: xpos() and xquat() return exactly nbody() entries, entry i holding
\* the pose of body i, whatever the number of geoms
C20_OneEntryPerBody ==
    xout.op # "none" =>
        /\ ~xout.crashed
        /\ Len(xout.entries) = nbody
        /\ \A i \in 0..nbody - 1 :
              xout.entries[i + 1] =
                  IF xout.op = "xpos" THEN XposEntry(xraw.xpos, i)
                                      ELSE XquatEntry(xraw.xquat, i)

\* the operations that build a primitive from gsim
MeshOps == {"wrappers", "adapters", "lib"}

\* C21: for a Plane geom, mesh generation builds a quad whose extent is the
\* declared first size component when that is not zero, and the fixed extent
\* 1e6 exactly when it is zero
C21_PlaneExtent ==
    (gbuilt.op \in MeshOps /\ gsim.kind = "PLANE") =>
        /\ gbuilt.shape = "Plane"
        /\ gbuilt.extent[1] = IF At(gsim.size, 0) # 0 THEN At(gsim.size, 0)
                              ELSE InfiniteExtent

\* C22: for Capsule and Cylinder geoms alike the mesh takes its radius from
\* the first simulation size component and its length as twice the second
\* simulation size component (the half-length)
C22_SameLengthComponent ==
    (gbuilt.op \in MeshOps /\ gsim.kind \in {"CAPSULE", "CYLINDER"}) =>
        /\ gbuilt.radius = At(gsim.size, 0)
        /\ gbuilt.length = 2 * At(gsim.size, 1)

\* the extent of the built primitive along the axis the correction acts on
AxisLength == IF gbuilt.shape = "Box" THEN gbuilt.extent[2] ELSE gbuilt.length

\* C23: for Box, Capsule and Cylinder the anchor correction is vertical and
\* its magnitude is half of, or the whole of, the extent mesh generation
\* gives the shape along that axis
C23_CorrectionFromExtent ==
    (gbuilt.op \in {"wrappers", "adapters"}
        /\ gsim.kind \in {"BOX", "CAPSULE", "CYLINDER"}) =>
        /\ gbuilt.correction[1] = 0
        /\ gbuilt.correction[3] = 0
        /\ gbuilt.correction[2] \in {AxisLength \div 2, AxisLength}

\* the rotations of the spawned body computed without the fixed turns
Uncorrected ==
    IF spawnOut.op = "spawn_body"
    THEN QMul(LibBodyTransformRotation(LibLoadQuat(spawnIn.body_quat)),
              LibRotation(LibLoadQuat(spawnIn.geom_quat)))
    ELSE AdaptersReordered(spawnIn.body_quat)

\* C24: the fixed quarter-turn correction is applied to root bodies only:
\* the rotation of a body whose parent is not the world is computed
\* without it
C24_CorrectionOnlyForRoots ==
    (spawnOut.op # "none" /\ spawnIn.parent_id # WorldId) =>
        spawnOut.rotation = Uncorrected

\* the scene nodes tagged MuJoCoBody { id } with the id of table position b
TaggedAs(b) == { e \in 1..Len(entities) : entities[e].tag = bodies[b].id }

\* C25: after setup_mujoco the scene graph mirrors the body forest: every
\* forest node has exactly one tagged scene node, and the scene node of a
\* non-root node is a scene-graph child of the scene node of its tree parent
C25_SceneMirrorsForest ==
    pc = "spawned" =>
        /\ \A n \in 1..Len(nodes) : Cardinality(TaggedAs(nodes[n].body)) = 1
        /\ \A p \in 1..Len(nodes) : \A i \in 1..Len(nodes[p].children) :
              \A e \in TaggedAs(nodes[nodes[p].children[i]].body) :
                  /\ entities[e].parent # 0
                  /\ entities[e].parent \in TaggedAs(nodes[p].body)

\* C26: the comparator of render_geom is a consistent ordering: for no two
\* candidate geoms does it answer Less both ways, so every order the sort can
\* leave the candidates in selects the same geom
C26_ConsistentComparator ==
    (gpc = "rendered" /\ Len(GeomQuery(bodies[rendered.body])) # 1) =>
        LET cands == RenderCandidates(bodies[rendered.body])
        IN  /\ \A i, j \in 1..Len(cands) :
                  i # j => ~ ( /\ Compare(geoms[cands[i]], geoms[cands[j]]) = "Less"
                               /\ Compare(geoms[cands[j]], geoms[cands[i]]) = "Less" )
            /\ \A s1, s2 \in SortedBy(cands) : Selected(s1) = Selected(s2)

\* the nodes of the tree rooted at node n
RECURSIVE NodesUnder(_)
NodesUnder(n) ==
    {n} \cup UNION { NodesUnder(nodes[n].children[k]) :
                     k \in 1..Len(nodes[n].children) }

\* the nodes of the returned forest
ForestNodes == UNION { NodesUnder(trees[k]) : k \in 1..Len(trees) }

\* C27: over tables with pairwise distinct ids, each body is in at most one
\* node of the forest returned by body_tree, and is in one exactly when
\* following parent_id links from it reaches a body whose parent_id is 0;
\* bodies on a parent cycle or under a parent_id that names no body are
\* left out, and body_tree does not fail
C27_ForestMembers ==
    /\ pc # "overflow"
    /\ Built =>
          \A i \in Positions :
              Cardinality({ n \in ForestNodes : nodes[n].body = i }) =
                  IF ReachesRoot(i, Len(bodies)) THEN 1 ELSE 0

\* a forest returned for a table that holds a root, two bodies that are each
\* other's parent and a body whose parent_id names no body
C27_Witness ==
    /\ pc = "done"
    /\ ForestNodes # {}
    /\ \E i, j \in Positions :
          /\ i # j
          /\ bodies[i].parent_id = bodies[j].id
          /\ bodies[j].parent_id = bodies[i].id
    /\ \E i \in Positions :
          /\ bodies[i].parent_id # WorldId
          /\ \A j \in Positions : bodies[j].id # bodies[i].parent_id

\* the entries o, o + 1, o + 2 of a mesh array, as MeshStore fills vert and
\* face (an entry holds its own offset) and normal (the entry at offset o
\* holds -2 - o)
OwnTriple(o) == <<o, o + 1, o + 2>>
NormalTriple(o) == <<-2 - o, -3 - o, -4 - o>>

\* C28: the data meshes() extracts for mesh i is mesh i's segment of the
\* mesh arrays: vertex and normal k are the float triples at vertex index
\* mesh_vertadr(i) + k, triangle k is the int triple at face index
\* mesh_faceadr(i) + k
C28_MeshSegments ==
    mpc = "done" =>
        \A i \in 0..nmesh - 1 :
            /\ \A k \in 0..mesh_vertnum(i) - 1 :
                  /\ meshesOut[i + 1].vertices[k + 1] =
                        OwnTriple(3 * (mesh_vertadr(i) + k))
                  /\ meshesOut[i + 1].normals[k + 1] =
                        NormalTriple(3 * (mesh_vertadr(i) + k))
            /\ \A k \in 0..mesh_facenum(i) - 1 :
                  SubSeq(meshesOut[i + 1].indices, 3 * k + 1, 3 * k + 3) =
                      OwnTriple(3 * (mesh_faceadr(i) + k))

\* C29: the two implementations of the anchor correction agree: for every
\* simulation geom, geom_correction of adapters.rs on the unswapped size and
\* Geom::correction of wrappers.rs on the size swapped by geoms() return the
\* same vector
C29_CorrectionsAgree ==
    gbuilt.op = "corrections" => gbuilt.correction = gbuilt.adapters_correction

\* the arguments pass the assert! of the conversion
ValidCylinder == cyl.sized /\ cyl.resolution >= 1 /\ cyl.subdivisions >= 1

\* C30: for a Cylinder with resolution >= 1, subdivisions >= 1 and positive
\* radius and height the conversion does not panic and builds exactly
\* resolution * (subdivisions + 3) + 2 vertices and
\* 6 * subdivisions * resolution + 6 * resolution indices, each index
\* smaller than the number of vertices
C30_CylinderCounts ==
    ValidCylinder =>
        /\ cpc.at # "panic"
        /\ cpc.at = "done" =>
              /\ positions = cyl.resolution * (cyl.subdivisions + 3) + 2
              /\ Len(indices) = 6 * cyl.subdivisions * cyl.resolution
                                + 6 * cyl.resolution
        /\ cpc.at \in {"shaft_quads", "top_circle", "bottom_circle", "finish", "done"} =>
              \A k \in 1..Len(indices) : indices[k] >= 0 /\ indices[k] < positions

\* the default cylinder (resolution 20, subdivisions 4) has been converted:
\* 142 vertices and 600 indices, the last vertex among them
C30_Witness ==
    /\ cpc.at = "done"
    /\ cyl.resolution = DefaultResolution
    /\ cyl.subdivisions = DefaultSubdivisions
    /\ positions = 142
    /\ Len(indices) = 600
    /\ \E k \in 1..Len(indices) : indices[k] = positions - 1

====
